---- MODULE Spec2Model ----
(***************************************************************************)
(* rex: a curses front-end that browses a remote directory tree over ssh   *)
(* and runs one-shot remote commands.  The model follows the refactored    *)
(* package src/src/rex (app.py, input.py, command.py, models.py,           *)
(* remote.py, ui/layout.py, ui/render.py).                                 *)
(*                                                                         *)
(* Text is a sequence of one-character strings, so that slicing, strip(),  *)
(* lower(), splitlines() and substring search are computed and not         *)
(* assumed.  Python's None is the empty tuple <<>> and a present optional  *)
(* value v is <<v>>.  Indices into Python lists keep their 0-based value.  *)
(***************************************************************************)
EXTENDS Integers, Sequences, FiniteSets, TLC

----------------------------------------------------------------------------
(* Bounds of the model *)

\* terminal heights and widths a resize can produce
LowH == 6
HighH == 9
NarrowW == 5
WideW == 11
\* scrollback capacity the sessions are constructed with (models.py:18 has 2000)
MaxLines == 3
\* longest command line / search query typed
MaxInput == 2
MaxQuery == 1
\* most commands recorded before the model stops executing
MaxHistory == 2
\* most Up (and Down) presses of a history round trip
MaxTrip == 3
\* longest scrollback handed to the search functions directly
MaxApiLines == 4
MaxTyped == 1
\* tallest terminal and longest scrollback of the geometry checks
MaxGeomH == 24
MaxGeomLines == 8

Heights == {LowH, HighH}
Widths == {NarrowW, WideW}

----------------------------------------------------------------------------
(* Python helpers *)

Max(a, b) == IF a >= b THEN a ELSE b
Min(a, b) == IF a <= b THEN a ELSE b

None == <<>>
Some(v) == <<v>>

\* s[i:j] for 0 <= i, j (Python slice, 0-based, end exclusive)
Slice(s, i, j) == SubSeq(s, Min(i, Len(s)) + 1, Min(j, Len(s)))

RECURSIVE LStrip(_)
LStrip(s) == IF s # <<>> /\ Head(s) \in {" ", "\n"} THEN LStrip(Tail(s)) ELSE s

RECURSIVE RStrip(_)
RStrip(s) ==
    IF s # <<>> /\ s[Len(s)] \in {" ", "\n"} THEN RStrip(SubSeq(s, 1, Len(s) - 1)) ELSE s

\* str.strip()
Strip(s) == RStrip(LStrip(s))

LowerChar(c) == CASE c = "A" -> "a" [] c = "B" -> "b" [] c = "C" -> "c" [] OTHER -> c

\* str.lower()
Lower(s) == [i \in 1..Len(s) |-> LowerChar(s[i])]

\* needle in hay
Contains(hay, needle) ==
    \E i \in 0..(Len(hay) - Len(needle)) : SubSeq(hay, i + 1, i + Len(needle)) = needle

\* str.splitlines() for text whose only line terminator is "\n"
RECURSIVE SplitFrom(_, _, _)
SplitFrom(s, i, cur) ==
    IF i > Len(s) THEN (IF cur = <<>> THEN <<>> ELSE <<cur>>)
    ELSE IF s[i] = "\n" THEN <<cur>> \o SplitFrom(s, i + 1, <<>>)
    ELSE SplitFrom(s, i + 1, Append(cur, s[i]))

SplitLines(s) == SplitFrom(s, 1, <<>>)

\* "\n".join(lines) + "\n" : the text a remote command prints
RECURSIVE JoinLines(_)
JoinLines(ls) == IF ls = <<>> THEN <<>> ELSE Head(ls) \o <<"\n">> \o JoinLines(Tail(ls))

----------------------------------------------------------------------------
(* pathlib.PurePosixPath on the paths the program builds *)

RECURSIVE PathPartsFrom(_, _, _)
PathPartsFrom(s, i, cur) ==
    LET done == IF cur = <<>> \/ cur = <<".">> THEN <<>> ELSE <<cur>>
    IN  IF i > Len(s) THEN done
        ELSE IF s[i] = "/" THEN done \o PathPartsFrom(s, i + 1, <<>>)
        ELSE PathPartsFrom(s, i + 1, Append(cur, s[i]))

PathParts(s) == PathPartsFrom(s, 1, <<>>)
PathIsAbs(s) == s # <<>> /\ s[1] = "/"

RECURSIVE PathJoinParts(_)
PathJoinParts(ps) ==
    IF ps = <<>> THEN <<>>
    ELSE IF Len(ps) = 1 THEN ps[1]
    ELSE ps[1] \o <<"/">> \o PathJoinParts(Tail(ps))

\* str(PurePosixPath(...)) of an anchor and its parts
PathStr(abs, ps) ==
    IF ps = <<>> THEN (IF abs THEN <<"/">> ELSE <<".">>)
    ELSE (IF abs THEN <<"/">> ELSE <<>>) \o PathJoinParts(ps)

\* str(PurePosixPath(p).parent) or "/"
PathParent(p) ==
    LET ps == PathParts(p)
    IN  PathStr(PathIsAbs(p), IF ps = <<>> THEN ps ELSE SubSeq(ps, 1, Len(ps) - 1))

\* str(PurePosixPath(p) / name)
PathChild(p, name) ==
    IF PathIsAbs(name) THEN PathStr(TRUE, PathParts(name))
    ELSE PathStr(PathIsAbs(p), PathParts(p) \o PathParts(name))

\* RexApp._normalize_remote_path
normalize_remote_path(path) == PathStr(PathIsAbs(path), PathParts(path))

----------------------------------------------------------------------------
(* The remote host: what ssh can answer *)

RemoteHome == <<"/", "h">>

\* `ls -1Ap` of each directory of the remote tree
RemoteLs(d) ==
    CASE d = <<"/">> -> << <<"h", "/">> >>
      [] d = <<"/", "h">> -> << <<"a", "/">>, <<"b">>, <<"c", "c", "/">>, <<"d">>, <<"e">> >>
      [] d = <<"/", "h", "/", "a">> -> << >>
      [] d = <<"/", "h", "/", "c", "c">> -> << <<"f">> >>

RemoteDirs == { <<"/">>, <<"/", "h">>, <<"/", "h", "/", "a">>, <<"/", "h", "/", "c", "c">> }

\* where `cd -- target && pwd -P` ends up: relative paths start at the login directory
RemoteResolve(target) ==
    IF PathIsAbs(target) THEN PathStr(TRUE, PathParts(target))
    ELSE PathStr(TRUE, PathParts(RemoteHome) \o PathParts(target))

Completed(rc, out, err) == [timeout |-> FALSE, returncode |-> rc, stdout |-> out, stderr |-> err]
TimeoutExpired == [timeout |-> TRUE, returncode |-> 0, stdout |-> <<>>, stderr |-> <<>>]

\* transport failures any remote call can meet
ListFailures ==
    { TimeoutExpired,
      Completed(255, <<>>, <<"n", "o", "\n">>),
      Completed(0, <<>>, <<>>) }

\* every answer the listing command can get for a target
ListResponses(target) ==
    LET d == RemoteResolve(target)
    IN  ListFailures \cup
        (IF d \in RemoteDirs
         THEN { Completed(0, JoinLines(<<d>> \o RemoteLs(d)), <<>>) }
         ELSE { Completed(1, <<>>, <<"c", "d", "\n">>) })

----------------------------------------------------------------------------
(* remote.py *)

RemoteEntry(name, is_dir) == [name |-> name, is_dir |-> is_dir]

\* faulty variant: every item kept whole and taken for a file
ParseItems_all_files(raw) == [i \in 1..Len(raw) |-> RemoteEntry(raw[i], FALSE)]

RECURSIVE ParseItems(_)
ParseItems(raw) ==
    IF raw = <<>> THEN <<>>
    ELSE LET item == Head(raw)
             is_dir == item[Len(item)] = "/"
             name == IF is_dir THEN SubSeq(item, 1, Len(item) - 1) ELSE item
         IN  <<RemoteEntry(name, is_dir)>> \o ParseItems(Tail(raw))

\* faulty variant: a failed listing still names the path it was asked for
list_directory_partial(target_path, result) ==
    IF result.timeout
    THEN [resolved |-> Some(target_path), parsed |-> None,
          err |-> Some(<<"Listing timed out">>)]
    ELSE IF result.returncode # 0
    THEN LET e == Strip(result.stderr)
         IN  [resolved |-> Some(target_path), parsed |-> None,
              err |-> Some(<<"Error:", IF e # <<>> THEN e ELSE <<"failed to list directory">> >>)]
    ELSE LET lines == SplitLines(result.stdout)
         IN  IF lines = <<>>
             THEN [resolved |-> None, parsed |-> None,
                   err |-> Some(<<"Error:", <<"empty response while listing directory">> >>)]
             ELSE LET first == Strip(lines[1])
                      raw == SelectSeq(Tail(lines), LAMBDA l : l # <<>>)
                  IN  [resolved |-> Some(IF first # <<>> THEN first ELSE target_path),
                       parsed |-> Some(<<RemoteEntry(<<".", ".">>, TRUE)>> \o ParseItems(raw)),
                       err |-> None]

\* RemoteShell.list_directory, given the answer of self.run(cmd)
list_directory(target_path, result) ==
    IF result.timeout
    THEN [resolved |-> None, parsed |-> None, err |-> Some(<<"Listing timed out">>)]
    ELSE IF result.returncode # 0
    THEN LET e == Strip(result.stderr)
         IN  [resolved |-> None, parsed |-> None,
              err |-> Some(<<"Error:", IF e # <<>> THEN e ELSE <<"failed to list directory">> >>)]
    ELSE LET lines == SplitLines(result.stdout)
         IN  IF lines = <<>>
             THEN [resolved |-> None, parsed |-> None,
                   err |-> Some(<<"Error:", <<"empty response while listing directory">> >>)]
             ELSE LET first == Strip(lines[1])
                      raw == SelectSeq(Tail(lines), LAMBDA l : l # <<>>)
                  IN  [resolved |-> Some(IF first # <<>> THEN first ELSE target_path),
                       parsed |-> Some(<<RemoteEntry(<<".", ".">>, TRUE)>> \o ParseItems(raw)),
                       err |-> None]

----------------------------------------------------------------------------
(* ui/layout.py : LayoutEngine, for a terminal of h rows and w columns *)

\* faulty variant: the panel claims a third of the content rows
command_block_height_third(total_height) == Max(3, total_height \div 3)

command_block_height(total_height) == Max(3, total_height \div 4)

\* Renderer.draw: the rows of the browser block and of the command block
pane_split(h, vis) ==
    LET content_h == Max(1, h - 3)
        command_block_h == Min(content_h - 1, command_block_height(content_h))
    IN  IF vis THEN [browser |-> Max(1, content_h - command_block_h),
                     command |-> command_block_h]
        ELSE [browser |-> content_h, command |-> 0]

\* <<rows, width>> of the file grid
browser_pane_dimensions(h, w, vis) ==
    LET content_h == Max(1, h - 3)
        command_h == Min(content_h - 1, command_block_height(content_h))
        browser_h == IF vis THEN Max(1, content_h - command_h) ELSE content_h
    IN  <<Max(1, browser_h - 1), Max(1, w)>>

command_output_rows(h, vis) ==
    IF ~vis THEN 0
    ELSE LET content_h == Max(1, h - 3)
             command_block_h == Min(content_h - 1, command_block_height(content_h))
             panel_h == Max(1, command_block_h - 1)
         IN  Max(0, panel_h - 1)

command_max_scroll(h, vis, total) ==
    LET output_rows == command_output_rows(h, vis)
    IN  IF output_rows <= 0 THEN 0 ELSE Max(0, total - output_rows)

\* faulty variant: only the lower end is clamped
clamp_command_scroll_floor_only(h, vis, total, scr) == Max(0, scr)

\* the new scroll
clamp_command_scroll(h, vis, total, scr) == Max(0, Min(scr, command_max_scroll(h, vis, total)))

\* faulty variant: the window starts at the target line
scroll_to_line_from_target(h, vis, total, idx) ==
    LET output_rows == command_output_rows(h, vis)
        line_idx == Max(0, Min(total - 1, idx))
        desired_end == Min(total, line_idx + output_rows)
    IN  IF output_rows <= 0 THEN 0
        ELSE clamp_command_scroll(h, vis, total, Max(0, total - desired_end))

\* the new scroll
scroll_to_line(h, vis, total, idx) ==
    LET output_rows == command_output_rows(h, vis)
        line_idx == Max(0, Min(total - 1, idx))
        start0 == Max(0, line_idx - (output_rows \div 2))
        desired_end == Min(total, start0 + output_rows)
    IN  IF output_rows <= 0 THEN 0
        ELSE clamp_command_scroll(h, vis, total, Max(0, total - desired_end))

EntryLabel(e) == Len(e.name) + (IF e.is_dir THEN 1 ELSE 0)

browser_layout(ents, height, width) ==
    LET rows == Max(1, height)
        usable_width == Max(1, width - 1)
        labels == {2} \cup { EntryLabel(ents[i]) : i \in 1..Len(ents) }
        max_label == CHOOSE m \in labels : \A l \in labels : l <= m
        width0 == Max(4, Min(usable_width, max_label + 2))
        cols == Max(1, usable_width \div width0)
        column_width == IF cols > 1 THEN Max(4, usable_width \div cols) ELSE width0
    IN  [rows |-> rows, column_width |-> column_width, cols |-> cols,
         page_size |-> rows * cols]

\* page size of the grid for a listing, a terminal size and a panel visibility
PageSizeOf(ents, h, w, vis) ==
    LET dim == browser_pane_dimensions(h, w, vis)
    IN  browser_layout(ents, dim[1], dim[2]).page_size

\* faulty variant: the clamp to the last page start without the snap to selected's page
ensure_visible_clamp_only(ents, sel, top, h, w, vis) ==
    LET page_size == PageSizeOf(ents, h, w, vis)
        max_start == IF ents # <<>> THEN ((Len(ents) - 1) \div page_size) * page_size ELSE 0
    IN  IF page_size <= 0 THEN top ELSE Min(top, max_start)

\* the new top_index
ensure_visible(ents, sel, top, h, w, vis) ==
    LET page_size == PageSizeOf(ents, h, w, vis)
        snapped == IF sel < top \/ sel >= top + page_size
                   THEN (sel \div page_size) * page_size ELSE top
        max_start == IF ents # <<>> THEN ((Len(ents) - 1) \div page_size) * page_size ELSE 0
    IN  IF page_size <= 0 THEN top ELSE Min(snapped, max_start)

----------------------------------------------------------------------------
(* State *)

VARIABLES
    \* the terminal, as stdscr.getmaxyx() reports it
    scr_h, scr_w,
    \* models.py : AppState
    cwd, entries, selected, top_index, message, focus,
    \* models.py : CommandPanelState
    visible, input, cursor, lines, max_lines, history, history_index, history_stash,
    scroll, search_mode, search_query, search_matches, search_pos,
    \* app.py : RexApp.run, the control loop: "start", "draw", "getch", "exit"
    pc,
    \* the key event handled last, the handler that consumed it, and the remote
    \* calls that handling issued, in order
    key, handler, calls,
    \* history variables of the checks: every line appended since the panel was
    \* last reset, and the input / Up and Down counts of a history round trip
    appended, trip_input, trip_ups, trip_downs,
    \* the answer remote.run gave to the command executed last
    answer,
    \* what RemoteClient.list_directory returned when it was last called directly
    returned

termvars == <<scr_h, scr_w>>
appvars == <<cwd, entries, selected, top_index, message, focus>>
cmdvars == <<visible, input, cursor, lines, max_lines, history, history_index, history_stash,
             scroll, search_mode, search_query, search_matches, search_pos>>
loopvars == <<pc, key, handler, calls>>
tripvars == <<trip_input, trip_ups, trip_downs>>
vars == <<termvars, appvars, cmdvars, loopvars, appended, tripvars, answer, returned>>

\* the browsing half of AppState as one value
App == [cwd |-> cwd, entries |-> entries, selected |-> selected, top_index |-> top_index,
        message |-> message]

SetApp(a) ==
    /\ cwd' = a.cwd
    /\ entries' = a.entries
    /\ selected' = a.selected
    /\ top_index' = a.top_index
    /\ message' = a.message

\* page size of the grid as the next draw would compute it
PageSize == PageSizeOf(entries, scr_h, scr_w, visible)
GridRows == browser_pane_dimensions(scr_h, scr_w, visible)[1]

----------------------------------------------------------------------------
(* app.py : RexApp, the browsing operations *)

\* faulty variant: a failed listing leaves the status message as it was
reload_entries_silent(a, result) ==
    LET r == list_directory(a.cwd, result)
    IN  IF r.err # None \/ r.parsed = None \/ r.resolved = None
        THEN a
        ELSE [cwd |-> r.resolved[1], entries |-> r.parsed[1], selected |-> 0, top_index |-> 0,
              message |-> <<"Loaded", Len(r.parsed[1]) - 1>>]

\* RexApp._reload_entries, given the listing command's answer
reload_entries(a, result) ==
    LET r == list_directory(a.cwd, result)
    IN  IF r.err # None \/ r.parsed = None \/ r.resolved = None
        THEN [a EXCEPT !.message = IF r.err # None THEN r.err[1]
                                   ELSE <<"Error: failed to list directory">>]
        ELSE [cwd |-> r.resolved[1], entries |-> r.parsed[1], selected |-> 0, top_index |-> 0,
              message |-> <<"Loaded", Len(r.parsed[1]) - 1>>]

\* RexApp._change_directory: the new state and the returned flag
change_directory(a, target_path, result) ==
    LET r == list_directory(target_path, result)
    IN  IF r.err # None \/ r.parsed = None \/ r.resolved = None
        THEN [app |-> [a EXCEPT !.message = IF r.err # None THEN r.err[1]
                                            ELSE <<"Failed to change directory">>],
              ok |-> FALSE]
        ELSE [app |-> [cwd |-> r.resolved[1], entries |-> r.parsed[1], selected |-> 0,
                       top_index |-> 0,
                       message |-> <<IF a.cwd # r.resolved[1] THEN "Entered" ELSE "Staying in",
                                     r.resolved[1], Len(r.parsed[1]) - 1>>],
              ok |-> TRUE]

\* RexApp._current_entry
current_entry(a) == IF a.entries = <<>> THEN None ELSE Some(a.entries[a.selected + 1])

\* faulty variant: the step applied without the clamp to [0, len(entries) - 1]
move_selection_unclamped(a, delta) ==
    IF a.entries = <<>> THEN a ELSE [a EXCEPT !.selected = a.selected + delta]

\* RexApp._move_selection
move_selection(a, delta) ==
    IF a.entries = <<>> THEN a
    ELSE [a EXCEPT !.selected = Max(0, Min(Len(a.entries) - 1, a.selected + delta))]

\* RexApp._move_selection_grid
move_selection_grid(a, d_row, d_col, h, w, vis) ==
    LET dim == browser_pane_dimensions(h, w, vis)
        rows == browser_layout(a.entries, dim[1], dim[2]).rows
        delta == d_row + (d_col * rows)
        target == a.selected + delta
    IN  IF a.entries = <<>> \/ rows <= 0 \/ delta = 0 THEN a
        ELSE IF target < 0 \/ target >= Len(a.entries) THEN a
        ELSE [a EXCEPT !.selected = target]

----------------------------------------------------------------------------
(* models.py : CommandPanelState *)

\* the command panel as one value
Cmd == [visible |-> visible, input |-> input, cursor |-> cursor, lines |-> lines,
        max_lines |-> max_lines, history |-> history, history_index |-> history_index,
        history_stash |-> history_stash, scroll |-> scroll, search_mode |-> search_mode,
        search_query |-> search_query, search_matches |-> search_matches,
        search_pos |-> search_pos]

SetCmd(c) ==
    /\ visible' = c.visible
    /\ input' = c.input
    /\ cursor' = c.cursor
    /\ lines' = c.lines
    /\ max_lines' = c.max_lines
    /\ history' = c.history
    /\ history_index' = c.history_index
    /\ history_stash' = c.history_stash
    /\ scroll' = c.scroll
    /\ search_mode' = c.search_mode
    /\ search_query' = c.search_query
    /\ search_matches' = c.search_matches
    /\ search_pos' = c.search_pos

InitCmd(c) ==
    /\ visible = c.visible
    /\ input = c.input
    /\ cursor = c.cursor
    /\ lines = c.lines
    /\ max_lines = c.max_lines
    /\ history = c.history
    /\ history_index = c.history_index
    /\ history_stash = c.history_stash
    /\ scroll = c.scroll
    /\ search_mode = c.search_mode
    /\ search_query = c.search_query
    /\ search_matches = c.search_matches
    /\ search_pos = c.search_pos

\* CommandPanelState(max_lines = n), as the dataclass constructs it
NewPanel(n) ==
    [visible |-> FALSE, input |-> <<>>, cursor |-> 0, lines |-> <<>>, max_lines |-> n,
     history |-> <<>>, history_index |-> None, history_stash |-> <<>>, scroll |-> 0,
     search_mode |-> FALSE, search_query |-> <<>>, search_matches |-> <<>>,
     search_pos |-> -1]

\* CommandPanelState.reset_for_open
\* faulty variant: the search query outlives the reset
reset_for_open_keeps_query(c) ==
    [c EXCEPT !.visible = TRUE, !.input = <<>>, !.cursor = 0, !.lines = <<>>, !.scroll = 0,
              !.history_index = None, !.history_stash = <<>>, !.search_mode = FALSE,
              !.search_matches = <<>>, !.search_pos = -1]

\* faulty variant: the scrollback outlives the reset
reset_for_open_keeps_lines(c) ==
    [c EXCEPT !.visible = TRUE, !.input = <<>>, !.cursor = 0, !.scroll = 0,
              !.history_index = None, !.history_stash = <<>>, !.search_mode = FALSE,
              !.search_query = <<>>, !.search_matches = <<>>, !.search_pos = -1]

\* faulty variant: the matches and the selected match outlive the reset
reset_for_open_keeps_matches(c) ==
    [c EXCEPT !.visible = TRUE, !.input = <<>>, !.cursor = 0, !.lines = <<>>, !.scroll = 0,
              !.history_index = None, !.history_stash = <<>>, !.search_mode = FALSE,
              !.search_query = <<>>]

\* CommandPanelState.reset_for_open
reset_for_open(c) ==
    [c EXCEPT !.visible = TRUE, !.input = <<>>, !.cursor = 0, !.lines = <<>>, !.scroll = 0,
              !.history_index = None, !.history_stash = <<>>, !.search_mode = FALSE,
              !.search_query = <<>>, !.search_matches = <<>>, !.search_pos = -1]

\* faulty variant: closing hides the panel and keeps the history browsing state
close_keeps_browsing(c) == [c EXCEPT !.visible = FALSE, !.search_mode = FALSE]

\* CommandPanelState.close
close(c) ==
    [c EXCEPT !.visible = FALSE, !.history_index = None, !.history_stash = <<>>,
              !.search_mode = FALSE]

\* self.lines[-self.max_lines:]
KeepNewest(ls, n) == SubSeq(ls, Len(ls) - n + 1, Len(ls))

\* faulty variant: at capacity the oldest lines are kept and the new line is dropped
panel_append_line_keep_oldest(c, line) ==
    LET grown == Append(c.lines, line)
    IN  [c EXCEPT !.lines = IF Len(grown) > c.max_lines THEN SubSeq(grown, 1, c.max_lines)
                            ELSE grown]

\* CommandPanelState.append_line
panel_append_line(c, line) ==
    LET was_bottom == c.scroll = 0
        grown == Append(c.lines, line)
        kept == IF Len(grown) > c.max_lines THEN KeepNewest(grown, c.max_lines) ELSE grown
    IN  [c EXCEPT !.lines = kept, !.scroll = IF was_bottom THEN 0 ELSE c.scroll]

\* CommandPanelState.clear_input
\* faulty variant: the text is cleared and the cursor stays
clear_input_text_only(c) == [c EXCEPT !.input = <<>>]

clear_input(c) == [c EXCEPT !.input = <<>>, !.cursor = 0]

----------------------------------------------------------------------------
(* command.py : CommandController *)

\* [i for i, line in enumerate(lines) if query in line.lower()], 0-based
RECURSIVE MatchesFrom(_, _, _)
MatchesFrom(ls, query, i) ==
    IF i > Len(ls) THEN <<>>
    ELSE (IF Contains(Lower(ls[i]), query) THEN <<i - 1>> ELSE <<>>)
         \o MatchesFrom(ls, query, i + 1)

\* faulty variant: a line matches only when it equals the query
refresh_search_matches_whole_line(c) ==
    LET query == Lower(Strip(c.search_query))
        found == SelectSeq([i \in 1..Len(c.lines) |-> i - 1],
                           LAMBDA i : Lower(c.lines[i + 1]) = query)
    IN  IF query = <<>> THEN [c EXCEPT !.search_matches = <<>>, !.search_pos = -1]
        ELSE [c EXCEPT !.search_matches = found,
                       !.search_pos = IF found = <<>> THEN -1
                                      ELSE IF c.search_pos < 0 \/ c.search_pos >= Len(found)
                                      THEN 0 ELSE c.search_pos]

\* CommandController.refresh_search_matches
refresh_search_matches(c) ==
    LET query == Lower(Strip(c.search_query))
        found == MatchesFrom(c.lines, query, 1)
    IN  IF query = <<>> THEN [c EXCEPT !.search_matches = <<>>, !.search_pos = -1]
        ELSE [c EXCEPT !.search_matches = found,
                       !.search_pos = IF found = <<>> THEN -1
                                      ELSE IF c.search_pos < 0 \/ c.search_pos >= Len(found)
                                      THEN 0 ELSE c.search_pos]

\* faulty variant: the line is appended and the matches are left as they were
append_line_no_refresh(c, line) == panel_append_line(c, line)

\* CommandController.append_line
append_line(c, line) == refresh_search_matches(panel_append_line(c, line))

RECURSIVE AppendAll(_, _)
AppendAll(c, ls) == IF ls = <<>> THEN c ELSE AppendAll(append_line(c, Head(ls)), Tail(ls))

\* CommandController.show_panel: the panel and the status line
show_panel(c, at) == [cmd |-> reset_for_open(c), message |-> <<"Run command in", at>>]

\* faulty variant: the focus goes back to the browser and the panel stays on screen
hide_panel_leaves_visible(c) ==
    [c EXCEPT !.history_index = None, !.history_stash = <<>>, !.search_mode = FALSE]

\* CommandController.hide_panel
hide_panel(c) == close(c)

\* CommandController.jump_search: the panel and the status line
\* faulty variant: the step stops at the first and the last match
jump_search_no_wrap(c, msg, direction, h) ==
    LET n == Len(c.search_matches)
        pos == IF c.search_pos < 0 THEN (IF direction >= 0 THEN 0 ELSE n - 1)
               ELSE Max(0, Min(n - 1, c.search_pos + direction))
        line_idx == c.search_matches[pos + 1]
    IN  IF c.search_matches = <<>> THEN [cmd |-> c, message |-> <<"No search matches">>]
        ELSE [cmd |-> [c EXCEPT !.search_pos = pos,
                                !.scroll = scroll_to_line(h, c.visible, Len(c.lines), line_idx)],
              message |-> <<"Match", pos + 1, n, c.search_query>>]

\* faulty variant: the match is selected and the scrollback stays where it was
jump_search_no_scroll(c, msg, direction, h) ==
    LET n == Len(c.search_matches)
        pos == IF c.search_pos < 0 THEN (IF direction >= 0 THEN 0 ELSE n - 1)
               ELSE (c.search_pos + direction) % n
    IN  IF c.search_matches = <<>> THEN [cmd |-> c, message |-> <<"No search matches">>]
        ELSE [cmd |-> [c EXCEPT !.search_pos = pos],
              message |-> <<"Match", pos + 1, n, c.search_query>>]

jump_search(c, msg, direction, h) ==
    LET n == Len(c.search_matches)
        pos == IF c.search_pos < 0 THEN (IF direction >= 0 THEN 0 ELSE n - 1)
               ELSE (c.search_pos + direction) % n
        line_idx == c.search_matches[pos + 1]
    IN  IF c.search_matches = <<>> THEN [cmd |-> c, message |-> <<"No search matches">>]
        ELSE [cmd |-> [c EXCEPT !.search_pos = pos,
                                !.scroll = scroll_to_line(h, c.visible, Len(c.lines), line_idx)],
              message |-> <<"Match", pos + 1, n, c.search_query>>]

Digit(d) == CASE d = 0 -> "0" [] d = 1 -> "1" [] d = 2 -> "2" [] d = 3 -> "3" [] d = 4 -> "4"
              [] d = 5 -> "5" [] d = 6 -> "6" [] d = 7 -> "7" [] d = 8 -> "8" [] d = 9 -> "9"

\* str(n) of a non-negative integer
RECURSIVE IntStr(_)
IntStr(n) == IF n < 10 THEN <<Digit(n)>> ELSE IntStr(n \div 10) \o <<Digit(n % 10)>>

EchoLine(user_cmd) == <<"$", " ">> \o user_cmd
StderrLine(line) == <<"s", "t", "d", "e", "r", "r", ":", " ">> \o line
TimedOutLine == <<"[", "t", "i", "m", "e", "d", " ", "o", "u", "t", "]">>
NoOutputLine == <<"[", "n", "o", " ", "o", "u", "t", "p", "u", "t", "]">>
ExitLine(rc) == <<"[", "e", "x", "i", "t", " ">> \o IntStr(rc) \o <<"]">>

\* faulty variant: stderr lines come first and no exit marker is written
OutputLines_stderr_first(result) ==
    LET out_lines == SplitLines(result.stdout)
        err_lines == SplitLines(result.stderr)
    IN  IF result.timeout THEN <<TimedOutLine>>
        ELSE IF out_lines = <<>> /\ err_lines = <<>> THEN <<NoOutputLine>>
        ELSE [i \in 1..Len(err_lines) |-> StderrLine(err_lines[i])] \o out_lines

\* the lines execute_input appends after the echo, in order, for an answer of remote.run
OutputLines(result) ==
    LET out_lines == SplitLines(result.stdout)
        err_lines == SplitLines(result.stderr)
    IN  IF result.timeout THEN <<TimedOutLine>>
        ELSE (IF out_lines = <<>> /\ err_lines = <<>> THEN <<NoOutputLine>>
              ELSE out_lines \o [i \in 1..Len(err_lines) |-> StderrLine(err_lines[i])])
             \o (IF result.returncode # 0 THEN <<ExitLine(result.returncode)>> ELSE <<>>)

\* faulty variant: every executed command is recorded
record_history_always(hist, user_cmd) == Append(hist, user_cmd)

\* faulty variant: a command run before moves to the end of the history
record_history_moved(hist, user_cmd) ==
    Append(SelectSeq(hist, LAMBDA e : e # user_cmd), user_cmd)

\* history after execute_input records user_cmd
record_history(hist, user_cmd) ==
    IF hist = <<>> \/ hist[Len(hist)] # user_cmd THEN Append(hist, user_cmd) ELSE hist

\* faulty variant: a timeout leaves the status line alone
execute_input_silent_timeout(c, msg, result) ==
    LET user_cmd == Strip(c.input)
        recorded == [c EXCEPT !.history = record_history(c.history, user_cmd),
                              !.history_index = None, !.history_stash = <<>>]
        echoed == [append_line(recorded, EchoLine(user_cmd)) EXCEPT !.scroll = 0]
        done == clear_input(AppendAll(echoed, OutputLines(result)))
    IN  IF user_cmd = <<>> THEN [cmd |-> c, message |-> <<"Empty command">>]
        ELSE [cmd |-> done,
              message |-> IF result.timeout THEN msg
                          ELSE IF result.returncode # 0
                          THEN <<"Command failed", result.returncode>>
                          ELSE <<"Command finished">>]

\* faulty variant: only the empty input is rejected, blanks are run
execute_input_runs_blanks(c, msg, result) ==
    LET user_cmd == Strip(c.input)
        recorded == [c EXCEPT !.history = record_history(c.history, user_cmd),
                              !.history_index = None, !.history_stash = <<>>]
        echoed == [append_line(recorded, EchoLine(user_cmd)) EXCEPT !.scroll = 0]
        done == clear_input(AppendAll(echoed, OutputLines(result)))
    IN  IF c.input = <<>> THEN [cmd |-> c, message |-> <<"Empty command">>]
        ELSE [cmd |-> done,
              message |-> IF result.timeout THEN <<"Command timed out">>
                          ELSE IF result.returncode # 0
                          THEN <<"Command failed", result.returncode>>
                          ELSE <<"Command finished">>]

\* CommandController.execute_input: the panel and the status line
execute_input(c, msg, result) ==
    LET user_cmd == Strip(c.input)
        recorded == [c EXCEPT !.history = record_history(c.history, user_cmd),
                              !.history_index = None, !.history_stash = <<>>]
        echoed == [append_line(recorded, EchoLine(user_cmd)) EXCEPT !.scroll = 0]
        done == clear_input(AppendAll(echoed, OutputLines(result)))
    IN  IF user_cmd = <<>> THEN [cmd |-> c, message |-> <<"Empty command">>]
        ELSE [cmd |-> done,
              message |-> IF result.timeout THEN <<"Command timed out">>
                          ELSE IF result.returncode # 0
                          THEN <<"Command failed", result.returncode>>
                          ELSE <<"Command finished">>]

\* answers of remote.run for a user command
RunResponses ==
    { TimeoutExpired,
      Completed(0, <<"b", "\n">>, <<>>),
      Completed(0, <<>>, <<>>),
      Completed(17, <<>>, <<"B", "a", "\n">>) }

----------------------------------------------------------------------------
(* input.py : InputController.set_command_from_history *)

\* faulty variant: browsing starts without saving the input in history_stash
set_command_from_history_unsaved(c, direction) ==
    LET started == IF c.history_index = None
                   THEN [c EXCEPT !.history_index = Some(Len(c.history))]
                   ELSE c
        next_idx == Max(0, Min(Len(c.history), started.history_index[1] + direction))
        text == IF next_idx = Len(c.history) THEN started.history_stash
                ELSE c.history[next_idx + 1]
    IN  IF c.history = <<>> THEN c
        ELSE [started EXCEPT !.history_index = Some(next_idx), !.input = text,
                             !.cursor = Len(text)]

\* faulty variant: the recalled text replaces the input and the cursor stays
set_command_from_history_cursor_kept(c, direction) ==
    LET started == IF c.history_index = None
                   THEN [c EXCEPT !.history_stash = c.input,
                                  !.history_index = Some(Len(c.history))]
                   ELSE c
        next_idx == Max(0, Min(Len(c.history), started.history_index[1] + direction))
        text == IF next_idx = Len(c.history) THEN started.history_stash
                ELSE c.history[next_idx + 1]
    IN  IF c.history = <<>> THEN c
        ELSE [started EXCEPT !.history_index = Some(next_idx), !.input = text]

set_command_from_history(c, direction) ==
    LET started == IF c.history_index = None
                   THEN [c EXCEPT !.history_stash = c.input,
                                  !.history_index = Some(Len(c.history))]
                   ELSE c
        next_idx == Max(0, Min(Len(c.history), started.history_index[1] + direction))
        text == IF next_idx = Len(c.history) THEN started.history_stash
                ELSE c.history[next_idx + 1]
    IN  IF c.history = <<>> THEN c
        ELSE [started EXCEPT !.history_index = Some(next_idx), !.input = text,
                             !.cursor = Len(text)]

----------------------------------------------------------------------------
(* Key events.  Special keys carry their curses name, control characters   *)
(* their ASCII name (LF 10, CR 13, ESC 27, GS 29 = Ctrl-], NAK 21 = Ctrl-u, *)
(* DEL 127, BS 8); a printable key (codes 32..126) is its own character.    *)

QuitKeys == {"q", "Q"}
EnterKeys == {"KEY_ENTER", "LF", "CR"}
BackspaceKeys == {"KEY_BACKSPACE", "DEL", "BS"}
HideKeys == {"ESC", "GS"}
GridKeys == {"KEY_UP", "k", "KEY_DOWN", "j", "KEY_LEFT", "h", "KEY_RIGHT", "l"}
PageKeys == {"KEY_NPAGE", "KEY_PPAGE"}
PanelKeys == {":", "s", "S"}
CursorKeys == {"KEY_LEFT", "KEY_RIGHT", "KEY_HOME", "KEY_END"}
HistoryKeys == {"KEY_UP", "KEY_DOWN"}
JumpKeys == {"n", "N"}

\* the keys with codes 32..126 that the model types
PrintableKeys ==
    {" ", "/", ":", "A", "B", "N", "Q", "S", "a", "b", "e", "h", "j", "k", "l", "n", "o",
     "p", "q", "r", "s"}

\* the keys no branch of any handler names
UnboundKeys == {"KEY_F1", "TAB"}

\* <<d_row, d_col>> of a directional key
GridDelta(k) ==
    CASE k \in {"KEY_UP", "k"} -> <<-1, 0>>
      [] k \in {"KEY_DOWN", "j"} -> <<1, 0>>
      [] k \in {"KEY_LEFT", "h"} -> <<0, -1>>
      [] k \in {"KEY_RIGHT", "l"} -> <<0, 1>>

\* InputController.handle_key: the branch of its if-chain that takes key k
handle_key_branch(k, foc) ==
    IF k \in QuitKeys THEN "quit"
    ELSE IF k = "KEY_RESIZE" THEN "resize"
    ELSE IF foc = "command" THEN "command"
    ELSE IF k \in GridKeys THEN "grid"
    ELSE IF k \in PageKeys THEN "page"
    ELSE IF k \in EnterKeys THEN "enter"
    ELSE IF k = "p" THEN "parent"
    ELSE IF k = "r" THEN "reload"
    ELSE IF k = "e" THEN "edit"
    ELSE IF k = "o" THEN "open"
    ELSE IF k \in PanelKeys THEN "panel"
    ELSE "none"

\* InputController.handle_command_key: the branch that takes key k
handle_command_key_branch(k, searching) ==
    IF searching THEN "search"
    ELSE IF k \in HideKeys THEN "hide"
    ELSE IF k = "/" THEN "slash"
    ELSE IF k \in JumpKeys THEN "jump"
    ELSE IF k \in PageKeys THEN "scroll"
    ELSE IF k \in EnterKeys THEN "execute"
    ELSE IF k \in BackspaceKeys THEN "backspace"
    ELSE IF k = "KEY_DC" THEN "delete"
    ELSE IF k \in CursorKeys THEN "cursor"
    ELSE IF k \in HistoryKeys THEN "history"
    ELSE IF k = "NAK" THEN "ctrl_u"
    ELSE IF k \in PrintableKeys THEN "insert"
    ELSE "none"

\* InputController.handle_search_key: the branch that takes key k
handle_search_key_branch(k) ==
    IF k = "ESC" THEN "cancel"
    ELSE IF k \in EnterKeys THEN "commit"
    ELSE IF k \in BackspaceKeys THEN "backspace"
    ELSE IF k = "NAK" THEN "ctrl_u"
    ELSE IF k \in PrintableKeys THEN "append"
    ELSE "none"

BrowserBranch(k, b) == handle_key_branch(k, focus) = b
CommandBranch(k, b) ==
    /\ handle_key_branch(k, focus) = "command"
    /\ handle_command_key_branch(k, search_mode) = b
SearchBranch(k, b) ==
    /\ handle_key_branch(k, focus) = "command"
    /\ handle_command_key_branch(k, search_mode) = "search"
    /\ handle_search_key_branch(k) = b

----------------------------------------------------------------------------
(* The control loop of RexApp.run *)

ghostvars == <<appended, tripvars, answer, returned>>

Init ==
    /\ scr_h \in Heights
    /\ scr_w \in Widths
    /\ cwd = normalize_remote_path(<<".">>)
    /\ entries = <<>>
    /\ selected = 0
    /\ top_index = 0
    /\ message = <<"">>
    /\ focus = "browser"
    /\ InitCmd(NewPanel(MaxLines))
    /\ pc = "start"
    /\ key = "none"
    /\ handler = "none"
    /\ calls = <<>>
    /\ appended = <<>>
    /\ trip_input = <<>>
    /\ trip_ups = 0
    /\ trip_downs = 0
    /\ answer = None
    /\ returned = None

\* run(): the listing that precedes the loop
Run ==
    /\ pc = "start"
    /\ \E r \in ListResponses(cwd) : SetApp(reload_entries(App, r))
    /\ pc' = "draw"
    /\ calls' = <<"list_directory">>
    /\ UNCHANGED <<termvars, focus, cmdvars, key, handler, ghostvars>>

\* Renderer.draw: draw_command_panel clamps the scroll offset before it paints
Draw ==
    /\ pc = "draw"
    /\ pc' = "getch"
    /\ scroll' = IF visible /\ scr_w > 1
                 THEN clamp_command_scroll(scr_h, visible, Len(lines), scroll) ELSE scroll
    /\ UNCHANGED <<termvars, appvars, visible, input, cursor, lines, max_lines, history,
                   history_index, history_stash, search_mode, search_query, search_matches,
                   search_pos, key, handler, calls, ghostvars>>

\* getch() times out (-1): the loop draws again
Idle ==
    /\ pc = "getch"
    /\ pc' = "draw"
    /\ UNCHANGED <<termvars, appvars, cmdvars, key, handler, calls, ghostvars>>

\* a key event reaches handle_key and handler h consumes it
Handled(k, h, cs) ==
    /\ pc = "getch"
    /\ key' = k
    /\ handler' = h
    /\ calls' = cs

KeyQuit(k) ==
    /\ handle_key_branch(k, focus) = "quit"
    /\ Handled(k, "handle_key", <<>>)
    /\ pc' = "exit"
    /\ UNCHANGED <<termvars, appvars, cmdvars, ghostvars>>

\* the terminal takes the size h x w and getch() returns KEY_RESIZE
KeyResize(h, w) ==
    /\ Handled("KEY_RESIZE", "handle_key", <<>>)
    /\ pc' = "draw"
    /\ scr_h' = h
    /\ scr_w' = w
    /\ UNCHANGED <<appvars, cmdvars, ghostvars>>

----------------------------------------------------------------------------
(* handle_key with focus == "browser" *)

\* the tail of handle_key: self.layout.ensure_visible() on the state the branch left
BrowserDone(a, vis) ==
    SetApp([a EXCEPT !.top_index =
                ensure_visible(a.entries, a.selected, a.top_index, scr_h, scr_w, vis)])

BrowserGrid(k) ==
    /\ BrowserBranch(k, "grid")
    /\ Handled(k, "browser", <<>>)
    /\ pc' = "draw"
    /\ BrowserDone(move_selection_grid(App, GridDelta(k)[1], GridDelta(k)[2],
                                       scr_h, scr_w, visible), visible)
    /\ UNCHANGED <<termvars, focus, cmdvars, ghostvars>>

BrowserPage(k) ==
    /\ BrowserBranch(k, "page")
    /\ Handled(k, "browser", <<>>)
    /\ pc' = "draw"
    /\ BrowserDone(move_selection(App, IF k = "KEY_NPAGE" THEN 10 ELSE -10), visible)
    /\ UNCHANGED <<termvars, focus, cmdvars, ghostvars>>

\* faulty variant: the hand-off returns and nothing is listed again
run_fullscreen_ssh_no_reload(a, result) == a

\* RexApp._run_fullscreen_ssh: the hand-off, then the reload of its finally block
run_fullscreen_ssh(a, result) == reload_entries(a, result)

\* faulty variant: the cached is_dir flag decides between listing and opening
enter_selected_by_flag(a, r1, r2) ==
    LET entry == current_entry(a)
        name == entry[1].name
        up == change_directory(a, PathParent(a.cwd), r1)
        into == change_directory(a, PathChild(a.cwd, name), r1)
    IN  IF entry = None THEN [app |-> a, calls |-> <<>>]
        ELSE IF name = <<".", ".">> THEN [app |-> up.app, calls |-> <<"list_directory">>]
        ELSE IF entry[1].is_dir THEN [app |-> into.app, calls |-> <<"list_directory">>]
        ELSE [app |-> run_fullscreen_ssh([a EXCEPT !.message = <<"Not a directory", name>>], r2),
              calls |-> <<"run_fullscreen", "list_directory">>]

\* RexApp._enter_selected: the new state and the remote calls made, for the answers
\* r1 (listing of the target) and r2 (reload after the hand-off)
enter_selected(a, r1, r2) ==
    LET entry == current_entry(a)
        name == entry[1].name
        up == change_directory(a, PathParent(a.cwd), r1)
        into == change_directory(a, PathChild(a.cwd, name), r1)
        fallback == [into.app EXCEPT !.message = <<"Not a directory", name>>]
    IN  IF entry = None THEN [app |-> a, calls |-> <<>>]
        ELSE IF name = <<".", ".">> THEN [app |-> up.app, calls |-> <<"list_directory">>]
        ELSE IF into.ok THEN [app |-> into.app, calls |-> <<"list_directory">>]
        ELSE [app |-> run_fullscreen_ssh(fallback, r2),
              calls |-> <<"list_directory", "run_fullscreen", "list_directory">>]

\* the path _enter_selected lists first
EnterTarget(a) ==
    LET entry == current_entry(a)
    IN  IF entry = None THEN a.cwd
        ELSE IF entry[1].name = <<".", ".">> THEN PathParent(a.cwd)
        ELSE PathChild(a.cwd, entry[1].name)

\* Enter, for the answers r1 (listing of the target) and r2 (reload after a hand-off)
BrowserEnterCore(k, r1, r2) ==
    /\ BrowserBranch(k, "enter")
    /\ pc' = "draw"
    /\ LET e == enter_selected(App, r1, r2)
       IN  /\ Handled(k, "browser", e.calls)
           /\ BrowserDone(e.app, visible)
    /\ UNCHANGED <<termvars, focus, cmdvars>>

BrowserEnter(k) ==
    /\ \E r1 \in ListResponses(EnterTarget(App)), r2 \in ListResponses(cwd) :
          BrowserEnterCore(k, r1, r2)
    /\ UNCHANGED ghostvars

\* "p", for the answer r of the listing of the parent
BrowserParentCore(k, r) ==
    /\ BrowserBranch(k, "parent")
    /\ Handled(k, "browser", <<"list_directory">>)
    /\ pc' = "draw"
    /\ LET c == change_directory(App, PathParent(cwd), r)
       IN  BrowserDone(IF c.ok THEN c.app
                       ELSE [c.app EXCEPT !.message =
                                 <<"Error: failed to change to parent directory">>],
                       visible)
    /\ UNCHANGED <<termvars, focus, cmdvars>>

BrowserParent(k) ==
    /\ \E r \in ListResponses(PathParent(cwd)) : BrowserParentCore(k, r)
    /\ UNCHANGED ghostvars

\* "r", for the answer r of the listing of cwd
BrowserReloadCore(k, r) ==
    /\ BrowserBranch(k, "reload")
    /\ Handled(k, "browser", <<"list_directory">>)
    /\ pc' = "draw"
    /\ BrowserDone(reload_entries(App, r), visible)
    /\ UNCHANGED <<termvars, focus, cmdvars>>

BrowserReload(k) ==
    /\ \E r \in ListResponses(cwd) : BrowserReloadCore(k, r)
    /\ UNCHANGED ghostvars

\* the guard of the "e" and "o" branches
IsPlainFile(entry) ==
    entry # None /\ ~entry[1].is_dir /\ entry[1].name # <<".", ".">>

\* RexApp._edit_file ("e") and RexApp._open_file ("o"), for the answer r of the reload
BrowserFileCore(k, r) ==
    /\ handle_key_branch(k, focus) \in {"edit", "open"}
    /\ pc' = "draw"
    /\ IF IsPlainFile(current_entry(App))
       THEN /\ Handled(k, "browser", <<"run_fullscreen", "list_directory">>)
            /\ BrowserDone(run_fullscreen_ssh(App, r), visible)
       ELSE /\ Handled(k, "browser", <<>>)
            /\ BrowserDone(App, visible)
    /\ UNCHANGED <<termvars, focus, cmdvars>>

BrowserFile(k) ==
    /\ \E r \in ListResponses(cwd) : BrowserFileCore(k, r)
    /\ UNCHANGED ghostvars

BrowserPanelCore(k) ==
    /\ BrowserBranch(k, "panel")
    /\ Handled(k, "browser", <<>>)
    /\ pc' = "draw"
    /\ LET s == show_panel(Cmd, cwd)
       IN  /\ SetCmd(s.cmd)
           /\ focus' = "command"
           /\ BrowserDone([App EXCEPT !.message = s.message], s.cmd.visible)
    /\ UNCHANGED termvars

BrowserPanel(k) == BrowserPanelCore(k) /\ UNCHANGED ghostvars

\* a key no branch names: only ensure_visible runs
BrowserOther(k) ==
    /\ BrowserBranch(k, "none")
    /\ Handled(k, "browser", <<>>)
    /\ pc' = "draw"
    /\ BrowserDone(App, visible)
    /\ UNCHANGED <<termvars, focus, cmdvars, ghostvars>>

----------------------------------------------------------------------------
(* handle_command_key with search_mode == False *)

\* a command-focus key: the panel becomes c and the status line m
CommandDone(k, h, c, m) ==
    /\ Handled(k, h, <<>>)
    /\ pc' = "draw"
    /\ SetCmd(c)
    /\ message' = m
    /\ UNCHANGED <<termvars, cwd, entries, selected, top_index, focus>>

CommandHide(k) ==
    /\ CommandBranch(k, "hide")
    /\ Handled(k, "command", <<>>)
    /\ pc' = "draw"
    /\ SetCmd(hide_panel(Cmd))
    /\ focus' = "browser"
    /\ UNCHANGED <<termvars, cwd, entries, selected, top_index, message, ghostvars>>

CommandSlash(k) ==
    /\ CommandBranch(k, "slash")
    /\ CommandDone(k, "command", [Cmd EXCEPT !.search_mode = TRUE], <<"Search output">>)
    /\ UNCHANGED ghostvars

CommandJump(k) ==
    /\ CommandBranch(k, "jump")
    /\ LET j == jump_search(refresh_search_matches(Cmd), message,
                            IF k = "n" THEN 1 ELSE -1, scr_h)
       IN  CommandDone(k, "command", j.cmd, j.message)
    /\ UNCHANGED ghostvars

CommandScroll(k) ==
    /\ CommandBranch(k, "scroll")
    /\ LET step == Max(1, command_output_rows(scr_h, visible))
           moved == IF k = "KEY_PPAGE" THEN scroll + step ELSE scroll - step
       IN  CommandDone(k, "command",
                       [Cmd EXCEPT !.scroll =
                            clamp_command_scroll(scr_h, visible, Len(lines), moved)],
                       message)
    /\ UNCHANGED ghostvars

\* Enter: execute_input with the answer r of remote.run, when a call is made
CommandEnterCore(k, r) ==
    /\ CommandBranch(k, "execute")
    /\ Len(record_history(history, Strip(input))) <= MaxHistory
    /\ pc' = "draw"
    /\ key' = k
    /\ handler' = "command"
    /\ pc = "getch"
    /\ calls' = IF Strip(input) = <<>> THEN <<>> ELSE <<"run">>
    /\ LET x == execute_input(Cmd, message, r)
       IN  SetCmd(x.cmd) /\ message' = x.message
    /\ UNCHANGED <<termvars, cwd, entries, selected, top_index, focus>>

CommandEnter(k) == (\E r \in RunResponses : CommandEnterCore(k, r)) /\ UNCHANGED ghostvars

CommandBackspace(k) ==
    /\ CommandBranch(k, "backspace")
    /\ CommandDone(k, "command",
                   IF cursor > 0
                   THEN [Cmd EXCEPT !.input = Slice(input, 0, cursor - 1)
                                               \o Slice(input, cursor, Len(input)),
                                    !.cursor = cursor - 1]
                   ELSE Cmd,
                   message)
    /\ UNCHANGED ghostvars

CommandDelete(k) ==
    /\ CommandBranch(k, "delete")
    /\ CommandDone(k, "command",
                   IF cursor < Len(input)
                   THEN [Cmd EXCEPT !.input = Slice(input, 0, cursor)
                                               \o Slice(input, cursor + 1, Len(input))]
                   ELSE Cmd,
                   message)
    /\ UNCHANGED ghostvars

CommandCursor(k) ==
    /\ CommandBranch(k, "cursor")
    /\ CommandDone(k, "command",
                   [Cmd EXCEPT !.cursor =
                        CASE k = "KEY_LEFT" -> Max(0, cursor - 1)
                          [] k = "KEY_RIGHT" -> Min(Len(input), cursor + 1)
                          [] k = "KEY_HOME" -> 0
                          [] k = "KEY_END" -> Len(input)],
                   message)
    /\ UNCHANGED ghostvars

CommandHistoryCore(k) ==
    /\ CommandBranch(k, "history")
    /\ CommandDone(k, "command",
                   set_command_from_history(Cmd, IF k = "KEY_UP" THEN -1 ELSE 1), message)

CommandHistory(k) == CommandHistoryCore(k) /\ UNCHANGED ghostvars

CommandCtrlU(k) ==
    /\ CommandBranch(k, "ctrl_u")
    /\ CommandDone(k, "command",
                   [Cmd EXCEPT !.input = Slice(input, cursor, Len(input)), !.cursor = 0],
                   message)
    /\ UNCHANGED ghostvars

\* a printable key: ch = chr(key) goes in at the cursor
CommandChar(k) ==
    /\ CommandBranch(k, "insert")
    /\ Len(input) < MaxInput
    /\ CommandDone(k, "command",
                   [Cmd EXCEPT !.input = Slice(input, 0, cursor) \o <<k>>
                                         \o Slice(input, cursor, Len(input)),
                               !.cursor = cursor + 1],
                   message)
    /\ UNCHANGED ghostvars

CommandOther(k) ==
    /\ CommandBranch(k, "none")
    /\ CommandDone(k, "command", Cmd, message)
    /\ UNCHANGED ghostvars

----------------------------------------------------------------------------
(* handle_search_key: handle_command_key with search_mode == True *)

\* faulty variant: ESC in search mode closes the panel as it does outside it
SearchCancel_hides(k) ==
    /\ SearchBranch(k, "cancel")
    /\ Handled(k, "search", <<>>)
    /\ pc' = "draw"
    /\ SetCmd(hide_panel(Cmd))
    /\ focus' = "browser"
    /\ UNCHANGED <<termvars, cwd, entries, selected, top_index, message, ghostvars>>

SearchCancel(k) ==
    /\ SearchBranch(k, "cancel")
    /\ CommandDone(k, "search", [Cmd EXCEPT !.search_mode = FALSE], <<"Search cancelled">>)
    /\ UNCHANGED ghostvars

SearchCommit(k) ==
    /\ SearchBranch(k, "commit")
    /\ LET found == refresh_search_matches([Cmd EXCEPT !.search_mode = FALSE])
           j == jump_search([found EXCEPT !.search_pos = -1], message, 1, scr_h)
       IN  IF found.search_matches = <<>>
           THEN CommandDone(k, "search", found, <<"No matches for", search_query>>)
           ELSE CommandDone(k, "search", j.cmd, j.message)
    /\ UNCHANGED ghostvars

SearchBackspace(k) ==
    /\ SearchBranch(k, "backspace")
    /\ CommandDone(k, "search",
                   IF search_query # <<>>
                   THEN [Cmd EXCEPT !.search_query =
                             SubSeq(search_query, 1, Len(search_query) - 1)]
                   ELSE Cmd,
                   message)
    /\ UNCHANGED ghostvars

SearchCtrlU(k) ==
    /\ SearchBranch(k, "ctrl_u")
    /\ CommandDone(k, "search", [Cmd EXCEPT !.search_query = <<>>], message)
    /\ UNCHANGED ghostvars

SearchChar(k) ==
    /\ SearchBranch(k, "append")
    /\ Len(search_query) < MaxQuery
    /\ CommandDone(k, "search", [Cmd EXCEPT !.search_query = Append(search_query, k)],
                   message)
    /\ UNCHANGED ghostvars

SearchOther(k) ==
    /\ SearchBranch(k, "none")
    /\ CommandDone(k, "search", Cmd, message)
    /\ UNCHANGED ghostvars

----------------------------------------------------------------------------
(* Specifications *)

\* the keys pressed while browsing
BrowseKeys ==
    {"KEY_UP", "KEY_DOWN", "KEY_LEFT", "KEY_RIGHT", "j", "KEY_NPAGE", "KEY_PPAGE",
     "KEY_ENTER", "p", "r", "e", "o", ":", "KEY_F1", "ESC", "q", "Q"}

\* A browsing session: every browser-focus branch of handle_key under every answer of
\* the listing command, resizes, and the panel opened and closed.  The other
\* command-focus keys leave the terminal, the listing, selected and top_index as they
\* are (CommandDone), so SpecExec and SpecSearch explore them.
Next ==
    \/ Run
    \/ Draw
    \/ Idle
    \/ \E k \in BrowseKeys : KeyQuit(k)
    \/ \E h \in Heights, w \in Widths : KeyResize(h, w)
    \/ \E k \in BrowseKeys : BrowserGrid(k)
    \/ \E k \in BrowseKeys : BrowserPage(k)
    \/ \E k \in BrowseKeys : BrowserEnter(k)
    \/ \E k \in BrowseKeys : BrowserParent(k)
    \/ \E k \in BrowseKeys : BrowserReload(k)
    \/ \E k \in BrowseKeys : BrowserFile(k)
    \/ \E k \in BrowseKeys : BrowserPanel(k)
    \/ \E k \in BrowseKeys : BrowserOther(k)
    \/ \E k \in BrowseKeys : CommandHide(k)

Spec == Init /\ [][Next]_vars

\* RemoteClient.list_directory called directly, for several targets and every answer
\* of self.run(cmd): the listing answers of the remote, a non-zero exit that wrote
\* nothing, and a listing whose first line is blank.
ListTargets ==
    { <<"/">>, <<"/", "h">>, <<"/", "h", "/", "a">>, <<"/", "h", "/", "b">>,
      <<"/", "h", "/", "c", "c">>, <<"/", "h", "/", "d">>, <<".">> }

ListAnswers(target) ==
    ListResponses(target) \cup
    { Completed(1, <<>>, <<>>),
      Completed(2, <<"b", "\n">>, <<" ", "n", "o", "\n">>),
      Completed(127, <<>>, <<"B", "a", "\n">>),
      Completed(0, <<"\n">>, <<>>),
      Completed(0, <<" ", "\n", "a", "/", "\n">>, <<>>),
      Completed(0, <<"\n", "b", "\n">>, <<>>) }

ApiListDirectory(target, r) ==
    /\ pc = "start"
    /\ handler' = "list_directory"
    /\ calls' = <<"run">>
    /\ answer' = Some(r)
    /\ returned' = Some(list_directory(target, r))
    /\ UNCHANGED <<termvars, appvars, cmdvars, pc, key, appended, tripvars>>

NextList == \E target \in ListTargets : \E r \in ListAnswers(target) : ApiListDirectory(target, r)

SpecList == Init /\ [][NextList]_vars

\* Navigating: the browser keys that move the selection and list directories, on a
\* terminal that keeps its size, under every answer of the listing command.
\* `answer` keeps what the first listing of the key event gave.
NavEnter(k) ==
    /\ \E r1 \in ListResponses(EnterTarget(App)), r2 \in ListResponses(cwd) :
          /\ BrowserEnterCore(k, r1, r2)
          /\ answer' = IF current_entry(App) = None THEN None ELSE Some(r1)
    /\ UNCHANGED <<appended, tripvars, returned>>

NavParent(k) ==
    /\ \E r \in ListResponses(PathParent(cwd)) :
          BrowserParentCore(k, r) /\ answer' = Some(r)
    /\ UNCHANGED <<appended, tripvars, returned>>

NavReload(k) ==
    /\ \E r \in ListResponses(cwd) : BrowserReloadCore(k, r) /\ answer' = Some(r)
    /\ UNCHANGED <<appended, tripvars, returned>>

NavKeys == {"KEY_UP", "KEY_DOWN", "KEY_LEFT", "KEY_RIGHT", "KEY_NPAGE", "KEY_ENTER", "p", "r"}

NextNav ==
    \/ Run
    \/ Draw
    \/ \E k \in NavKeys : BrowserGrid(k)
    \/ \E k \in NavKeys : BrowserPage(k)
    \/ \E k \in NavKeys : NavEnter(k)
    \/ \E k \in NavKeys : NavParent(k)
    \/ \E k \in NavKeys : NavReload(k)

SpecNav == Init /\ [][NextNav]_vars

\* Executing commands: the panel opened and closed, short command lines typed and run
\* under every answer of remote.run.  `appended` logs what each execution appends
\* and starts again when the panel is reset; an execution starts while the log is
\* no longer than the capacity, so the log runs past it.
InitExec == Init /\ scr_h = HighH /\ scr_w = WideW

\* run() with the first listing answered
RunListed == Run /\ entries' # <<>>

\* the lines an execution of the current input appends, echo first
ExecutionLines(r) ==
    IF Strip(input) = <<>> THEN <<>> ELSE <<EchoLine(Strip(input))>> \o OutputLines(r)

\* a letter typed while the input line is shorter than MaxTyped
ShortChar(k) == Len(input) < MaxTyped /\ CommandChar(k)

ExecPanel(k) ==
    /\ BrowserPanelCore(k)
    /\ appended' = <<>>
    /\ UNCHANGED <<tripvars, answer, returned>>

ExecEnter(k) ==
    /\ Len(appended) <= max_lines
    /\ \E r \in RunResponses :
          /\ CommandEnterCore(k, r)
          /\ appended' = appended \o ExecutionLines(r)
    /\ UNCHANGED <<tripvars, answer, returned>>

ExecKeys == {":", "ESC", "a", "KEY_ENTER", "q"}

NextExec ==
    \/ RunListed
    \/ Draw
    \/ \E k \in ExecKeys : KeyQuit(k)
    \/ \E k \in ExecKeys : ExecPanel(k)
    \/ \E k \in ExecKeys : CommandHide(k)
    \/ \E k \in ExecKeys : ShortChar(k)
    \/ \E k \in ExecKeys : ExecEnter(k)

SpecExec == InitExec /\ [][NextExec]_vars

\* A whole session on one terminal size: the user either browses with the keys that
\* call the remote, or opens the panel on the first key and runs one short command
\* there; the quit keys work throughout.  `answer` keeps
\* what the last remote call of a key event gave (stale when `calls` is empty).
SessEnter(k) ==
    /\ \E r1 \in ListResponses(EnterTarget(App)), r2 \in ListResponses(cwd) :
          /\ BrowserEnterCore(k, r1, r2)
          /\ answer' = IF Len(enter_selected(App, r1, r2).calls) > 1
                       THEN Some(r2) ELSE Some(r1)
    /\ UNCHANGED <<appended, tripvars, returned>>

SessParent(k) ==
    /\ \E r \in ListResponses(PathParent(cwd)) :
          BrowserParentCore(k, r) /\ answer' = Some(r)
    /\ UNCHANGED <<appended, tripvars, returned>>

SessReload(k) ==
    /\ \E r \in ListResponses(cwd) : BrowserReloadCore(k, r) /\ answer' = Some(r)
    /\ UNCHANGED <<appended, tripvars, returned>>

SessFile(k) ==
    /\ \E r \in ListResponses(cwd) :
          BrowserFileCore(k, r) /\ answer' = Some(r)
    /\ UNCHANGED <<appended, tripvars, returned>>

SessRun(k) ==
    /\ lines = <<>>
    /\ \E r \in RunResponses :
          CommandEnterCore(k, r) /\ answer' = Some(r)
    /\ UNCHANGED <<appended, tripvars, returned>>

SessPanel(k) == key = "none" /\ BrowserPanel(k)

SessKeys == {"KEY_DOWN", "KEY_ENTER", "p", "r", "o", "e", ":", "a", "q", "Q"}

NextSess ==
    \/ RunListed
    \/ Draw
    \/ \E k \in SessKeys : KeyQuit(k)
    \/ \E k \in SessKeys : SessEnter(k)
    \/ \E k \in SessKeys : SessParent(k)
    \/ \E k \in SessKeys : SessReload(k)
    \/ \E k \in SessKeys : SessFile(k)
    \/ \E k \in SessKeys : SessRun(k)
    \/ \E k \in SessKeys : BrowserGrid(k)
    \/ \E k \in SessKeys : SessPanel(k)
    \/ \E k \in SessKeys : ShortChar(k)

SpecSess == InitExec /\ [][NextSess]_vars

\* Running commands: short command lines of letters and blanks typed and run, remote.run
\* answering with output on either stream or both, any exit code, or not at all.
\* `answer` keeps what remote.run gave.
RunAnswers ==
    RunResponses \cup
    { Completed(0, <<"b", "\n">>, <<"B", "a", "\n">>),
      Completed(2, <<>>, <<>>),
      Completed(2, <<"b", "\n", "c", "\n">>, <<>>) }

RunEnter(k) ==
    /\ \E r \in RunAnswers :
          /\ CommandEnterCore(k, r)
          /\ answer' = IF Strip(input) = <<>> THEN None ELSE Some(r)
    /\ UNCHANGED <<appended, tripvars, returned>>

RunKeys == {":", "a", " ", "KEY_ENTER"}

NextRun ==
    \/ RunListed
    \/ Draw
    \/ \E k \in RunKeys : BrowserPanel(k)
    \/ \E k \in RunKeys : ShortChar(k)
    \/ \E k \in RunKeys : RunEnter(k)

SpecRun == InitExec /\ [][NextRun]_vars

\* Recording history: command lines of letters and blanks typed and run, remote.run
\* answering with no output or not at all.
QuietResponse == Completed(0, <<>>, <<>>)
HistResponses == {QuietResponse, TimeoutExpired}

HistEnter(k) == (\E r \in HistResponses : CommandEnterCore(k, r)) /\ UNCHANGED ghostvars

HistKeys == {":", "a", " ", "KEY_ENTER"}

NextHist ==
    \/ RunListed
    \/ Draw
    \/ \E k \in HistKeys : BrowserPanel(k)
    \/ \E k \in HistKeys : CommandChar(k)
    \/ \E k \in HistKeys : HistEnter(k)

SpecHist == InitExec /\ [][NextHist]_vars

\* Editing the command line: every editing key of handle_command_key, history
\* browsing, Enter with one quiet command run in the session, the panel closed and
\* reopened
EditEnter(k) ==
    /\ history = <<>>
    /\ CommandEnterCore(k, QuietResponse)
    /\ UNCHANGED ghostvars

EditKeys ==
    {":", "ESC", "GS", "a", "KEY_ENTER", "KEY_BACKSPACE", "KEY_DC", "KEY_LEFT",
     "KEY_RIGHT", "KEY_HOME", "KEY_END", "KEY_UP", "KEY_DOWN", "NAK"}

NextEdit ==
    \/ RunListed
    \/ Draw
    \/ \E k \in EditKeys : BrowserPanel(k)
    \/ \E k \in EditKeys : CommandHide(k)
    \/ \E k \in EditKeys : CommandChar(k)
    \/ \E k \in EditKeys : EditEnter(k)
    \/ \E k \in EditKeys : CommandBackspace(k)
    \/ \E k \in EditKeys : CommandDelete(k)
    \/ \E k \in EditKeys : CommandCursor(k)
    \/ \E k \in EditKeys : CommandHistory(k)
    \/ \E k \in EditKeys : CommandCtrlU(k)

SpecEdit == InitExec /\ [][NextEdit]_vars

\* History round trips: commands typed and run, then Up pressed trip_ups times from a
\* state that is not browsing (history_index is None) and Down pressed trip_downs
\* times, with no other key in between.  trip_input is the input the first Up found.
TripIdle == trip_ups = 0

\* remote.run answers every command with exit 0 and no output
TripPanel(k) == TripIdle /\ BrowserPanel(k)
TripChar(k) == TripIdle /\ CommandChar(k)
TripEnter(k) == TripIdle /\ CommandEnterCore(k, QuietResponse) /\ UNCHANGED ghostvars

\* Up, counted, from any command-normal state
TripUpCore(k) ==
    /\ k = "KEY_UP"
    /\ trip_downs = 0
    /\ trip_ups < MaxTrip
    /\ CommandHistoryCore(k)
    /\ trip_ups' = trip_ups + 1
    /\ trip_input' = IF TripIdle THEN input ELSE trip_input
    /\ UNCHANGED <<trip_downs, appended, answer, returned>>

TripUp(k) ==
    /\ TripIdle => history_index = None
    /\ TripUpCore(k)

TripDown(k) ==
    /\ k = "KEY_DOWN"
    /\ trip_downs < trip_ups
    /\ CommandHistoryCore(k)
    /\ trip_downs' = trip_downs + 1
    /\ UNCHANGED <<trip_input, trip_ups, appended, answer, returned>>

\* the round trip is over: the next keys are counted from zero
TripOver ==
    /\ pc = "getch"
    /\ trip_ups > 0
    /\ trip_downs = trip_ups
    /\ trip_ups' = 0
    /\ trip_downs' = 0
    /\ trip_input' = <<>>
    /\ UNCHANGED <<termvars, appvars, cmdvars, loopvars, appended, answer, returned>>

TripKeys == {":", "a", "KEY_ENTER", "KEY_UP", "KEY_DOWN"}

NextTrip ==
    \/ RunListed
    \/ Draw
    \/ \E k \in TripKeys : TripPanel(k)
    \/ \E k \in TripKeys : TripChar(k)
    \/ \E k \in TripKeys : TripEnter(k)
    \/ \E k \in TripKeys : TripUp(k)
    \/ \E k \in TripKeys : TripDown(k)
    \/ TripOver

SpecTrip == InitExec /\ [][NextTrip]_vars

\* The same round trips started from any command-normal state, also one that history
\* browsing has left at the newest position and that was edited since.
NextTripAny ==
    \/ RunListed
    \/ Draw
    \/ \E k \in TripKeys : TripPanel(k)
    \/ \E k \in TripKeys : TripChar(k)
    \/ \E k \in TripKeys : TripEnter(k)
    \/ \E k \in TripKeys : TripUpCore(k)
    \/ \E k \in TripKeys : TripDown(k)
    \/ TripOver

SpecTripAny == InitExec /\ [][NextTripAny]_vars

\* The history over a session: commands run and answered quietly, with a time-out or
\* with a failure; history browsing; the panel closed and reopened.  The command
\* lines are made of the letter a.
PastEnter(k) ==
    /\ \E r \in HistResponses \cup {Completed(17, <<>>, <<>>)} : CommandEnterCore(k, r)
    /\ UNCHANGED ghostvars

PastKeys == {":", "ESC", "a", "KEY_ENTER", "KEY_UP", "KEY_DOWN"}

NextPast ==
    \/ RunListed
    \/ Draw
    \/ \E k \in PastKeys : BrowserPanel(k)
    \/ \E k \in PastKeys : CommandHide(k)
    \/ \E k \in {"a"} : CommandChar(k)
    \/ \E k \in PastKeys : PastEnter(k)
    \/ \E k \in PastKeys : CommandHistory(k)

SpecPast == InitExec /\ [][NextPast]_vars

\* The search functions called on a panel directly (RexApp._refresh_search_matches,
\* RexApp._jump_search), over every scrollback of at most MaxApiLines lines and a few
\* queries, from no selected match.
ApiLineValues == { <<"a">>, <<"b">>, <<"a", "b", "c">>, <<"B">> }
ApiScrollbacks == UNION { [1..n -> ApiLineValues] : n \in 0..MaxApiLines }
ApiQueries == { <<>>, <<"b">>, <<"B">>, <<" ", "b">>, <<"c">> }

InitApi ==
    /\ scr_h = HighH
    /\ scr_w = WideW
    /\ cwd = normalize_remote_path(<<".">>)
    /\ entries = <<>>
    /\ selected = 0
    /\ top_index = 0
    /\ message = <<"">>
    /\ focus = "command"
    /\ \E ls \in ApiScrollbacks, q \in ApiQueries :
          InitCmd([NewPanel(Max(MaxLines, MaxApiLines)) EXCEPT
                      !.visible = TRUE, !.lines = ls, !.search_query = q])
    /\ pc = "start"
    /\ key = "none"
    /\ handler = "none"
    /\ calls = <<>>
    /\ appended = <<>>
    /\ trip_input = <<>>
    /\ trip_ups = 0
    /\ trip_downs = 0
    /\ answer = None
    /\ returned = None

\* a method of the controller called outside the key loop
ApiCall(name, c, m) ==
    /\ pc = "start"
    /\ handler' = name
    /\ SetCmd(c)
    /\ message' = m
    /\ UNCHANGED <<termvars, cwd, entries, selected, top_index, focus, pc, key, calls,
                   ghostvars>>

ApiRefresh == ApiCall("refresh_search_matches", refresh_search_matches(Cmd), message)

ApiJump(direction) ==
    LET j == jump_search(Cmd, message, direction, scr_h)
    IN  ApiCall("jump_search", j.cmd, j.message)

NextApi ==
    \/ ApiRefresh
    \/ \E d \in {-1, 1} : ApiJump(d)

SpecApi == InitApi /\ [][NextApi]_vars

\* Geometry: a panel holding a scrollback of at most MaxGeomLines lines on a terminal
\* of any height up to MaxGeomH, open or hidden, at any scroll offset; the loop draws,
\* pages the scrollback and scrolls to a line.  `returned` keeps the pane split of the
\* last draw and `answer` the line last scrolled to.
InitGeom ==
    /\ scr_h \in 1..MaxGeomH
    /\ scr_w = WideW
    /\ cwd = normalize_remote_path(<<".">>)
    /\ entries = <<>>
    /\ selected = 0
    /\ top_index = 0
    /\ message = <<"">>
    /\ \E vis \in BOOLEAN, n \in 0..MaxGeomLines :
          \E s \in 0..Max(0, n - 1) :
             /\ focus = IF vis THEN "command" ELSE "browser"
             /\ InitCmd([NewPanel(MaxGeomLines) EXCEPT
                            !.visible = vis, !.lines = [i \in 1..n |-> <<"a">>],
                            !.scroll = s])
    /\ pc = "getch"
    /\ key = "none"
    /\ handler = "none"
    /\ calls = <<>>
    /\ appended = <<>>
    /\ trip_input = <<>>
    /\ trip_ups = 0
    /\ trip_downs = 0
    /\ answer = None
    /\ returned = None

\* Renderer.draw, keeping the pane split it computed
GeomDraw ==
    /\ pc = "draw"
    /\ pc' = "getch"
    /\ scroll' = IF visible /\ scr_w > 1
                 THEN clamp_command_scroll(scr_h, visible, Len(lines), scroll) ELSE scroll
    /\ returned' = Some(pane_split(scr_h, visible))
    /\ UNCHANGED <<termvars, appvars, visible, input, cursor, lines, max_lines, history,
                   history_index, history_stash, search_mode, search_query, search_matches,
                   search_pos, key, handler, calls, appended, tripvars, answer>>

\* LayoutEngine.scroll_to_line(line_idx), as jump_search calls it
GeomScrollTo(line_idx) ==
    /\ pc = "getch"
    /\ focus = "command"
    /\ line_idx < Len(lines)
    /\ pc' = "draw"
    /\ handler' = "scroll_to_line"
    /\ answer' = Some(line_idx)
    /\ scroll' = scroll_to_line(scr_h, visible, Len(lines), line_idx)
    /\ UNCHANGED <<termvars, appvars, visible, input, cursor, lines, max_lines, history,
                   history_index, history_stash, search_mode, search_query, search_matches,
                   search_pos, key, calls, appended, tripvars, returned>>

NextGeom ==
    \/ GeomDraw
    \/ Idle
    \/ \E k \in PageKeys : CommandScroll(k)
    \/ \E i \in 0..(MaxGeomLines - 1) : GeomScrollTo(i)

SpecGeom == InitGeom /\ [][NextGeom]_vars

\* Searching the output: short commands are typed and run, the scrollback is searched
\* with "/" and walked with n and N.
SearchKeys ==
    {":", "ESC", "b", "KEY_ENTER", "/", "n", "N", "KEY_BACKSPACE", "NAK", "KEY_F1"}

\* the letters typed into the input line and into the query
TypedKeys == {"b"}

NextSearch ==
    \/ RunListed
    \/ Draw
    \/ \E k \in SearchKeys : BrowserPanel(k)
    \/ \E k \in SearchKeys : CommandHide(k)
    \/ \E k \in TypedKeys : ShortChar(k)
    \/ \E k \in SearchKeys : CommandEnter(k)
    \/ \E k \in SearchKeys : CommandSlash(k)
    \/ \E k \in SearchKeys : CommandJump(k)
    \/ \E k \in SearchKeys : SearchCancel(k)
    \/ \E k \in SearchKeys : SearchCommit(k)
    \/ \E k \in SearchKeys : SearchBackspace(k)
    \/ \E k \in SearchKeys : SearchCtrlU(k)
    \/ \E k \in TypedKeys : SearchChar(k)
    \/ \E k \in {"KEY_F1"} : SearchOther(k)

SpecSearch == InitExec /\ [][NextSearch]_vars

----------------------------------------------------------------------------
(* Claims *)

\* C1: while focus == command a "q" or "Q" key event never ends the session; the quit
\* binding fires in browser focus only.
C1_QuitOnlyInBrowser == (key \in QuitKeys /\ focus = "command") => pc # "exit"

\* C2: 0 <= selected < len(entries) whenever entries is non-empty, and selected == 0
\* when it is empty, in every reachable state.
C2_SelectedInBounds ==
    IF entries # <<>> THEN 0 <= selected /\ selected < Len(entries) ELSE selected = 0

\* a page-down that stopped at the last entry of the six-entry listing
C2_Witness ==
    key = "KEY_NPAGE" /\ handler = "browser" /\ Len(entries) = 6 /\ selected = 5

\* C3: in every reachable state top_index is a multiple of the page size of the current
\* geometry and top_index <= selected.
C3_TopIndexPageAligned == top_index % PageSize = 0 /\ top_index <= selected

\* C4: right after ensure_visible has run on a non-empty listing,
\* top_index <= selected < top_index + page_size.
C4_SelectedOnPage ==
    (handler = "browser" /\ entries # <<>>) =>
        (top_index <= selected /\ selected < top_index + PageSize)

\* ensure_visible has moved to a later page
C4_Witness ==
    handler = "browser" /\ pc = "draw" /\ top_index > 0 /\ selected > top_index

\* the flat target of a directional key lies outside [0, entry_count)
GridTargetOutside(k) ==
    LET target == selected + GridDelta(k)[1] + (GridDelta(k)[2] * GridRows)
    IN  target < 0 \/ target >= Len(entries)

\* C5: a directional key in browser focus whose flat delta leaves [0, entry_count)
\* leaves selected and top_index as they were when the key event completes.
C5_RejectedMoveChangesNothing ==
    [][(pc = "getch" /\ pc' = "draw" /\ focus = "browser" /\ handler' = "browser"
        /\ key' \in GridKeys /\ GridTargetOutside(key'))
       => (selected' = selected /\ top_index' = top_index)]_vars

\* the n newest elements of s, oldest first
Newest(s, n) == IF Len(s) <= n THEN s ELSE [i \in 1..n |-> s[Len(s) - n + i]]

\* C6: the scrollback never holds more than max_lines lines, and it is exactly the
\* newest max_lines lines appended, in the order they were appended.
C6_ScrollbackKeepsNewest == Len(lines) <= max_lines /\ lines = Newest(appended, max_lines)

\* an execution has pushed older lines out
C6_Witness == key \in EnterKeys /\ handler = "command" /\ Len(appended) > max_lines

\* an Enter in command-normal mode on a non-blank input: execute_input runs the command
ExecutesCommand ==
    /\ pc = "getch" /\ pc' = "draw"
    /\ focus = "command" /\ ~search_mode
    /\ key' \in EnterKeys /\ handler' = "command"
    /\ Strip(input) # <<>>

\* C7: executing a non-blank command c appends c to history exactly when the last
\* entry differs from c, and history never holds two adjacent equal entries.
C7_HistoryDedup ==
    /\ [](\A i \in 1..(Len(history) - 1) : history[i] # history[i + 1])
    /\ [][ExecutesCommand =>
            history' = IF history # <<>> /\ history[Len(history)] = Strip(input)
                       THEN history ELSE Append(history, Strip(input))]_vars

\* a command run again after an output line, and one history entry: the same command
\* was run twice in a row
C7_Witness ==
    /\ key \in EnterKeys /\ handler = "command" /\ calls = <<"run">>
    /\ Len(history) = 1
    /\ \E i \in 1..(Len(lines) - 1) :
          lines[i] \in {NoOutputLine, TimedOutLine} /\ lines[i + 1] = EchoLine(history[1])

\* C8: from a command-normal state that is not browsing history, k presses of Up
\* followed by k presses of Down leave input exactly as it was, for every history
\* and every k, k larger than the history included.
C8_HistoryRoundTrip == (trip_ups > 0 /\ trip_downs = trip_ups) => input = trip_input

\* a completed round trip of more presses than history has entries, on a typed input
C8_Witness ==
    /\ history # <<>>
    /\ trip_ups > Len(history)
    /\ trip_downs = trip_ups
    /\ trip_input # <<>>
    /\ key = "KEY_DOWN"

\* the scrollback ["a", "b", "abc", "b"]
ExampleScrollback == << <<"a">>, <<"b">>, <<"a", "b", "c">>, <<"b">> >>

RefreshedExample ==
    /\ handler = "refresh_search_matches"
    /\ lines = ExampleScrollback
    /\ search_query = <<"b">>

\* C9: for the scrollback ["a", "b", "abc", "b"] and the query "b" the recomputed
\* search_matches is [1, 3].
C9_MatchesOneThree == RefreshedExample => search_matches = <<1, 3>>

\* C9, amended: the recomputed search_matches is [1, 2, 3]; line 2, "abc", contains "b".
C9_MatchesSubstring == RefreshedExample => search_matches = <<1, 2, 3>>

C9_Witness == RefreshedExample /\ search_pos = 0

\* n or N is handled in command-normal mode, no match is selected and the query matches
\* at least one line of the scrollback
JumpsFromUnset ==
    /\ pc = "getch" /\ pc' = "draw"
    /\ handler' = "command"
    /\ key' \in JumpKeys
    /\ focus = "command" /\ ~search_mode
    /\ search_pos = -1
    /\ refresh_search_matches(Cmd).search_matches # <<>>

\* C10: in command-normal mode, with a query that matches at least one line and
\* search_pos == -1, 'n' selects match index 0 and 'N' selects the last match index.
C10_JumpFromUnset ==
    [][JumpsFromUnset =>
          search_pos' = IF key' = "n" THEN 0 ELSE Len(search_matches') - 1]_vars

\* n or N is handled in command-normal mode from a selected match, and recomputing
\* the matches gives the list already held
JumpsFromMatch ==
    /\ pc = "getch" /\ pc' = "draw"
    /\ handler' = "command"
    /\ key' \in JumpKeys
    /\ focus = "command" /\ ~search_mode
    /\ search_matches # <<>>
    /\ 0 <= search_pos /\ search_pos < Len(search_matches)
    /\ refresh_search_matches(Cmd).search_matches = search_matches

\* C11: from position p among N >= 1 matches, the match list unchanged by the
\* recomputation, 'n' sets search_pos to (p + 1) mod N and 'N' to (p - 1) mod N.
C11_JumpWraps ==
    [][JumpsFromMatch =>
          /\ search_matches' = search_matches
          /\ search_pos' = (search_pos + (IF key' = "n" THEN 1 ELSE -1))
                               % Len(search_matches)]_vars

\* 'n' has come back to the first of several matches: it stepped forward from the last
C11_Witness ==
    /\ key = "n" /\ handler = "command"
    /\ Len(search_matches) >= 2
    /\ search_pos = 0
    /\ message = <<"Match", 1, Len(search_matches), search_query>>

\* Enter is handled in command-normal mode
EnterInPanel ==
    /\ pc = "getch"
    /\ focus = "command" /\ ~search_mode
    /\ key' \in EnterKeys /\ handler' = "command"

\* the lines a completed run of user_cmd adds, as the specification lists them
CompletedLines(user_cmd, r) ==
    LET out == SplitLines(r.stdout)
        err == SplitLines(r.stderr)
    IN  << <<"$", " ">> \o user_cmd >>
        \o out
        \o [i \in 1..Len(err) |-> <<"s", "t", "d", "e", "r", "r", ":", " ">> \o err[i]]
        \o (IF out = <<>> /\ err = <<>>
            THEN << <<"[", "n", "o", " ", "o", "u", "t", "p", "u", "t", "]">> >> ELSE <<>>)
        \o (IF r.returncode # 0
            THEN << <<"[", "e", "x", "i", "t", " ">> \o IntStr(r.returncode) \o <<"]">> >>
            ELSE <<>>)

\* C12: a completed run of a non-blank command appends the echo line, the stdout
\* lines, the stderr lines prefixed "stderr: ", "[no output]" exactly when both streams
\* have no lines and "[exit <code>]" exactly when the code is non-zero, in this order;
\* the status is "Command failed (<code>)" or "Command finished".
C12_CompletedRunLines ==
    [][(EnterInPanel /\ Strip(input) # <<>> /\ answer' # None /\ ~answer'[1].timeout) =>
          /\ lines' = Newest(lines \o CompletedLines(Strip(input), answer'[1]), max_lines)
          /\ message' = IF answer'[1].returncode # 0
                        THEN <<"Command failed", answer'[1].returncode>>
                        ELSE <<"Command finished">>]_vars

\* a failed run with stderr only: echo, the prefixed line and the exit marker
C12_Witness ==
    /\ key \in EnterKeys /\ handler = "command"
    /\ answer = Some(Completed(17, <<>>, <<"B", "a", "\n">>))
    /\ lines = << <<"$", " ", "a">>, <<"s", "t", "d", "e", "r", "r", ":", " ", "B", "a">>,
                  <<"[", "e", "x", "i", "t", " ", "1", "7", "]">> >>
    /\ message = <<"Command failed", 17>>

\* C13: after execute_input of a non-blank command, whatever the remote outcome,
\* input == "" and cursor == 0.
C13_InputCleared ==
    [][(EnterInPanel /\ Strip(input) # <<>>) => (input' = <<>> /\ cursor' = 0)]_vars

\* a typed command timed out and the input line is empty again
C13_Witness ==
    /\ key \in EnterKeys /\ handler = "command" /\ pc = "draw"
    /\ answer = Some(TimeoutExpired)
    /\ input = <<>> /\ cursor = 0

\* C14: when the run times out, exactly "$ <cmd>" and "[timed out]" are appended, the
\* status is "Command timed out", execute_input returns to the loop and the command
\* is the last entry of history.
C14_TimeoutHandled ==
    [][(EnterInPanel /\ Strip(input) # <<>> /\ answer' = Some(TimeoutExpired)) =>
          /\ lines' = Newest(lines \o << <<"$", " ">> \o Strip(input),
                                         <<"[", "t", "i", "m", "e", "d", " ", "o", "u", "t", "]">> >>,
                             max_lines)
          /\ message' = <<"Command timed out">>
          /\ pc' = "draw"
          /\ history' # <<>> /\ history'[Len(history')] = Strip(input)]_vars

\* a command timed out: it is in history and the loop waits for the next key
C14_Witness ==
    /\ key \in EnterKeys /\ handler = "command" /\ pc = "getch"
    /\ answer = Some(TimeoutExpired)
    /\ message = <<"Command timed out">>
    /\ history # <<>>
    /\ Len(lines) >= 2 /\ lines[Len(lines) - 1] = <<"$", " ">> \o history[Len(history)]
    /\ lines[Len(lines)] = <<"[", "t", "i", "m", "e", "d", " ", "o", "u", "t", "]">>

\* C15: execute_input on an empty or whitespace-only input publishes a status message,
\* issues no remote call and leaves lines and history unchanged.
C15_BlankRejected ==
    [][(EnterInPanel /\ Strip(input) = <<>>) =>
          /\ message' = <<"Empty command">>
          /\ calls' = <<>>
          /\ lines' = lines
          /\ history' = history]_vars

\* Enter on a line of blanks, after an earlier command filled the scrollback
C15_Witness ==
    /\ key \in EnterKeys /\ handler = "command"
    /\ input # <<>> /\ Strip(input) = <<>>
    /\ message = <<"Empty command">>
    /\ calls = <<>>
    /\ lines # <<>> /\ history # <<>>

\* a key that opens the command panel is handled in the browser
OpensPanel ==
    /\ pc = "getch"
    /\ focus = "browser"
    /\ key' \in PanelKeys /\ handler' = "browser"

\* C16: opening the command panel is a hard reset of everything but history, whatever
\* the panel held, and opening it again changes nothing.
C16_OpenIsHardReset ==
    [][OpensPanel =>
          /\ focus' = "command" /\ visible'
          /\ input' = <<>> /\ cursor' = 0
          /\ lines' = <<>> /\ scroll' = 0
          /\ history_index' = None /\ history_stash' = <<>>
          /\ ~search_mode' /\ search_query' = <<>>
          /\ search_matches' = <<>> /\ search_pos' = -1
          /\ show_panel(Cmd', cwd').cmd = Cmd'
          /\ show_panel(Cmd', cwd').message = message']_vars

\* the panel is open again after a session that ran a command
C16_Witness ==
    /\ key \in PanelKeys /\ handler = "browser" /\ pc = "draw"
    /\ focus = "command" /\ visible
    /\ history # <<>>
    /\ lines = <<>> /\ search_query = <<>>

\* C17: the lines present when the panel is closed are still present in lines after
\* the panel is opened again.
C17_ScrollbackSurvivesReopen == [][OpensPanel => lines' = lines]_vars

\* C17, amended: closing the panel leaves lines and history alone; opening it again
\* empties lines and leaves history alone.
C17_HistorySurvivesReopen ==
    [][/\ OpensPanel => (lines' = <<>> /\ history' = history)
       /\ (pc = "getch" /\ focus = "command" /\ ~search_mode /\ key' \in HideKeys
           /\ handler' = "command") => (lines' = lines /\ history' = history)]_vars

\* reopened after a command was run and the panel closed: history is there, lines are not
C17_Witness ==
    /\ key \in PanelKeys /\ handler = "browser"
    /\ visible /\ appended = <<>>
    /\ history # <<>> /\ lines = <<>>

\* a listing that failed: it timed out, exited non-zero or printed nothing
ListingFails(r) == r.timeout \/ r.returncode # 0 \/ SplitLines(r.stdout) = <<>>

\* Enter, "p" or "r" is handled in the browser and the listing it asked for failed
FailedNavigation(keys) ==
    /\ pc = "getch"
    /\ focus = "browser"
    /\ key' \in keys /\ handler' = "browser"
    /\ answer' # None /\ ListingFails(answer'[1])

ListingKept ==
    cwd' = cwd /\ entries' = entries /\ selected' = selected /\ top_index' = top_index

\* C18: when the listing fails during reload, parent navigation or change-directory,
\* cwd, entries, selected and top_index are left exactly as they were.
C18_FailedListingKeepsState ==
    [][FailedNavigation(EnterKeys \cup {"p", "r"}) => ListingKept]_vars

\* the shape of what list_directory returns: a path and entries, or an error
ListShape(t) ==
    \/ t.err = None /\ t.resolved # None /\ t.parsed # None
    \/ t.err # None /\ t.resolved = None /\ t.parsed = None

\* C19: list_directory returns either (resolved_path, entries, None) or (None, None,
\* error); a timeout yields "Listing timed out", a non-zero exit yields
\* "Error: <remote stderr text>", an empty response yields an error.
C19_ListDirectoryErrors ==
    \A t \in {returned[i] : i \in 1..Len(returned)}, r \in {answer[i] : i \in 1..Len(answer)} :
        /\ ListShape(t)
        /\ r.timeout => t.err = Some(<<"Listing timed out">>)
        /\ (~r.timeout /\ r.returncode # 0) => t.err = Some(<<"Error:", Strip(r.stderr)>>)
        /\ (~r.timeout /\ r.returncode = 0 /\ r.stdout = <<>>) => t.err # None

\* C19, amended: a non-zero exit yields "Error: <stripped stderr>" when stderr holds
\* text and "Error: failed to list directory" when it is blank.
C19_ListDirectoryErrorsOrDefault ==
    \A t \in {returned[i] : i \in 1..Len(returned)}, r \in {answer[i] : i \in 1..Len(answer)} :
        /\ ListShape(t)
        /\ r.timeout => t.err = Some(<<"Listing timed out">>)
        /\ (~r.timeout /\ r.returncode # 0) =>
              t.err = Some(<<"Error:", IF Strip(r.stderr) # <<>> THEN Strip(r.stderr)
                                       ELSE <<"failed to list directory">> >>)
        /\ (~r.timeout /\ r.returncode = 0 /\ r.stdout = <<>>) => t.err # None

\* a non-zero exit that wrote nothing to stderr has been answered with the fixed text
C19_Witness ==
    /\ handler = "list_directory"
    /\ answer = Some(Completed(1, <<>>, <<>>))
    /\ returned # None
    /\ returned[1].err = Some(<<"Error:", <<"failed to list directory">> >>)

\* C20: within the handling of one key event at most one remote call (list_directory,
\* run or run_fullscreen) is issued.
C20_OneRemoteCallPerKey == handler # "none" => Len(calls) <= 1

\* the status texts that report a failed remote call
ErrorStatus(m) ==
    m[1] \in {"Listing timed out", "Error:", "Error: failed to change to parent directory",
              "Command timed out", "Command failed"}

\* the last remote call of the key event just handled met a time-out, a non-zero
\* exit or an unusable listing
LastCallFailed ==
    /\ calls' # <<>>
    /\ IF calls'[Len(calls')] = "run"
       THEN answer'[1].timeout \/ answer'[1].returncode # 0
       ELSE list_directory(cwd, answer'[1]).err # None

C22_CwdFromListing ==
    \E t \in RemoteDirs \cup {cwd} :
        \E r \in ListResponses(t) : list_directory(t, r).resolved = Some(cwd)

\* C23: whenever entries is non-empty its first entry is ".." with is_dir true, and
\* the entries after it are the remote items of cwd in order, each a directory exactly
\* when the item carries the trailing "/" (which the name drops).
C23_ParentEntryFirst ==
    entries # <<>> =>
        LET raw == RemoteLs(cwd)
        IN  /\ entries[1] = [name |-> <<".", ".">>, is_dir |-> TRUE]
            /\ Len(entries) = 1 + Len(raw)
            /\ \A i \in 1..Len(raw) :
                  LET marked == raw[i][Len(raw[i])] = "/"
                  IN  /\ entries[i + 1].is_dir = marked
                      /\ entries[i + 1].name =
                            IF marked THEN SubSeq(raw[i], 1, Len(raw[i]) - 1) ELSE raw[i]

\* a listing with directories and files after the parent entry is installed
C23_Witness ==
    /\ pc = "draw"
    /\ cwd = RemoteHome
    /\ Len(entries) = 6
    /\ entries[2].is_dir /\ ~entries[3].is_dir

\* C24: after any sequence of command-mode keys (insert, backspace, delete, cursor
\* moves, home/end, clear-to-start, history browsing, execute, panel open/close) the
\* cursor satisfies 0 <= cursor <= len(input).
C24_CursorInBounds == 0 <= cursor /\ cursor <= Len(input)

\* history browsing recalled a shorter line while the cursor stood at the end of a
\* longer one
C24_Witness ==
    /\ pc = "draw"
    /\ key = "KEY_UP"
    /\ history_index = Some(0)
    /\ Len(history_stash) = 2
    /\ Len(input) = 1
    /\ cursor = 1

\* C25: in every reachable state with a query, search_matches is exactly the
\* ascending sequence of the indices i whose line lines[i] contains search_query
\* without regard to case, also while the query is being typed in search mode.
C25_MatchesCurrent ==
    search_query # <<>> =>
        search_matches =
            SelectSeq([i \in 1..Len(lines) |-> i - 1],
                      LAMBDA i : Contains(Lower(lines[i + 1]), Lower(search_query)))

\* C26: every full-screen hand-off ("o", "e", the open-file fallback of Enter) is
\* followed within the same key event by a listing of the current directory, whose
\* outcome is the status the key event ends with.
C26_HandOffThenReload ==
    \A i \in 1..Len(calls) :
        calls[i] = "run_fullscreen" =>
            /\ i < Len(calls)
            /\ calls[i + 1] = "list_directory"
            /\ message[1] \in {"Loaded", "Listing timed out", "Error:"}

\* "e" on a plain file handed the terminal over and the listing was loaded again
C26_Witness ==
    /\ pc = "draw"
    /\ key = "e"
    /\ calls = <<"run_fullscreen", "list_directory">>
    /\ message[1] = "Loaded"
    /\ selected = 0

\* Enter is handled in the browser with an entry selected
EntersEntry ==
    /\ pc = "getch"
    /\ focus = "browser"
    /\ key' \in EnterKeys /\ handler' = "browser"
    /\ entries # <<>>

\* C27: Enter on ".." lists the parent of cwd and nothing else; Enter on any other
\* entry first lists cwd/<name>, whatever its is_dir flag says, and hands the file
\* over to the viewer exactly when that listing fails.
C27_EnterListsFirst ==
    [][EntersEntry =>
          LET name == entries[selected + 1].name
              parent == name = <<".", ".">>
              target == IF parent THEN PathParent(cwd) ELSE PathChild(cwd, name)
              failed == ListingFails(answer'[1])
          IN  /\ calls' # <<>> /\ calls'[1] = "list_directory"
              /\ ~failed => calls' = <<"list_directory">> /\ cwd' = RemoteResolve(target)
              /\ (failed /\ parent) => calls' = <<"list_directory">> /\ cwd' = cwd
              /\ (failed /\ ~parent) =>
                     calls' = <<"list_directory", "run_fullscreen", "list_directory">>]_vars

\* Enter on an entry flagged as a directory whose listing failed: the hand-off ran,
\* and the reload after it failed too, so the entry is still the selected one
C27_Witness ==
    /\ pc = "draw"
    /\ key = "KEY_ENTER"
    /\ Len(calls) = 3
    /\ answer # None /\ ListingFails(answer[1])
    /\ selected > 0
    /\ entries[selected + 1].is_dir

\* C28 as stated: with content_height = terminal height - 3, a visible panel gets
\* min(content_height - 1, max(3, content_height div 4)) rows and the browser the
\* remainder, at least 1 row; with the panel hidden the browser gets content_height.
C28_PaneSplit ==
    returned # None =>
        LET content_height == scr_h - 3
            command == Min(content_height - 1, Max(3, content_height \div 4))
        IN  IF visible
            THEN /\ returned[1].command = command
                 /\ returned[1].browser = content_height - command
                 /\ returned[1].browser >= 1
            ELSE returned[1].browser = content_height

\* C28, amended: the same with content_height = max(1, terminal height - 3); the
\* file grid has one row less than the browser block, and at least one.
C28_PaneSplitFloored ==
    returned # None =>
        LET content_height == Max(1, scr_h - 3)
            command == Min(content_height - 1, Max(3, content_height \div 4))
        IN  /\ IF visible
               THEN /\ returned[1].command = command
                    /\ returned[1].browser = content_height - command
                    /\ returned[1].browser >= 1
               ELSE returned[1].browser = content_height /\ returned[1].command = 0
            /\ returned[1].browser + returned[1].command = content_height
            /\ browser_pane_dimensions(scr_h, scr_w, visible)[1]
                  = Max(1, returned[1].browser - 1)

\* a draw with the panel open on a terminal tall enough for a quarter of the content
\* rows to exceed three
C28_Witness ==
    /\ returned # None
    /\ visible
    /\ returned[1].command = 4
    /\ returned[1].browser = scr_h - 7

\* C29: after every scroll adjustment of the command panel (page-up, page-down,
\* scroll-to-line), 0 <= scroll <= max_scroll, where max_scroll is
\* max(0, len(lines) - output_rows) for the geometry of the moment.
C29_ScrollClamped ==
    [][(pc = "getch" /\ (key' \in PageKeys \/ answer' # answer \/ scroll' # scroll))
          => /\ 0 <= scroll'
             /\ scroll' <= Max(0, Len(lines') - command_output_rows(scr_h', visible'))]_vars

\* page-up from one line short of the top of a scrollback longer than the window:
\* the step of a whole page is cut at max_scroll
C29_Witness ==
    /\ pc = "draw"
    /\ key = "KEY_PPAGE"
    /\ command_output_rows(scr_h, visible) = 3
    /\ Len(lines) = MaxGeomLines
    /\ scroll = Len(lines) - 3

\* C30: for a scrollback of total >= 1 lines, a target in [0, total) and
\* output_rows >= 1, after scroll_to_line(target) the target lies in the displayed
\* window [total - scroll - output_rows, total - scroll); when the target is at least
\* output_rows div 2 lines from the top and the window of output_rows lines starting
\* output_rows div 2 above it still ends within the scrollback, the target sits
\* exactly output_rows div 2 rows below the window start.
C30_TargetVisibleCentered ==
    (pc = "draw" /\ handler = "scroll_to_line" /\ answer # None
       /\ command_output_rows(scr_h, visible) >= 1)
    => LET total == Len(lines)
           output_rows == command_output_rows(scr_h, visible)
           target == answer[1]
           half == output_rows \div 2
           start == total - scroll - output_rows
       IN  /\ start <= target
           /\ target < total - scroll
           /\ (target >= half /\ target - half + output_rows <= total)
                 => target = start + half

\* a line in the middle of a scrollback longer than a window of three rows
C30_Witness ==
    /\ pc = "draw"
    /\ handler = "scroll_to_line"
    /\ command_output_rows(scr_h, visible) = 3
    /\ Len(lines) = MaxGeomLines
    /\ answer = Some(4)
    /\ scroll = Len(lines) - 6

\* Enter is handled in search mode
CommitsSearch ==
    /\ pc = "getch"
    /\ focus = "command" /\ search_mode
    /\ key' \in EnterKeys /\ handler' = "search"

\* the indices of the lines that hold the query, case ignored; none for a blank query
LinesHolding(ls, q) ==
    IF Strip(q) = <<>> THEN <<>>
    ELSE SelectSeq([i \in 1..Len(ls) |-> i - 1],
                   LAMBDA i : Contains(Lower(ls[i + 1]), Lower(Strip(q))))

\* C31: Enter in search mode always leaves search_mode false and recomputes the
\* matches; with a match it sets search_pos to 0, whatever it was, and scrolls to the
\* first match; with none it publishes the no-match status and leaves scroll alone.
C31_CommitSelectsFirst ==
    [][CommitsSearch =>
          /\ ~search_mode'
          /\ search_matches' = LinesHolding(lines, search_query)
          /\ IF search_matches' # <<>>
             THEN /\ search_pos' = 0
                  /\ scroll' = scroll_to_line(scr_h, visible, Len(lines), search_matches'[1])
                  /\ message'[1] = "Match"
             ELSE /\ message' = <<"No matches for", search_query>>
                  /\ scroll' = scroll]_vars

\* a commit with two matching lines, scrolled up to the first of them
C31_Witness ==
    /\ pc = "draw"
    /\ key = "KEY_ENTER" /\ handler = "search"
    /\ search_matches = <<0, 1>>
    /\ search_pos = 0
    /\ scroll = 1

\* ESC is handled in search mode
CancelsSearch ==
    /\ pc = "getch"
    /\ focus = "command" /\ search_mode
    /\ key' = "ESC" /\ handler' = "search"

\* C32: ESC in search mode only cancels the search entry: search_mode becomes false,
\* focus stays command and the panel stays visible; search_matches, search_pos,
\* scroll, lines, input and history are unchanged.
C32_CancelOnlyLeavesSearch ==
    [][CancelsSearch =>
          /\ ~search_mode'
          /\ focus' = "command"
          /\ visible'
          /\ UNCHANGED <<search_matches, search_pos, scroll, lines, input, history>>]_vars

\* a search cancelled over a scrollback with a selected match and a recorded command
C32_Witness ==
    /\ pc = "draw"
    /\ key = "ESC" /\ handler = "search"
    /\ ~search_mode /\ visible /\ focus = "command"
    /\ search_matches # <<>> /\ search_pos >= 0
    /\ history # <<>>

\* ESC or Ctrl-] is handled in command-normal mode
ClosesPanel ==
    /\ pc = "getch"
    /\ focus = "command" /\ ~search_mode
    /\ key' \in HideKeys /\ handler' = "command"

\* C33: closing the panel in command-normal mode (ESC or Ctrl-]) sets focus to
\* browser and visible to false and discards history_index, history_stash and
\* search_mode, and leaves the scrollback and the history as they were.
C33_CloseKeepsContent ==
    [][ClosesPanel =>
          /\ focus' = "browser"
          /\ ~visible'
          /\ history_index' = None
          /\ history_stash' = <<>>
          /\ ~search_mode'
          /\ lines' = lines
          /\ history' = history]_vars

\* the panel closed with Ctrl-] over a scrollback and a recorded command
C33_Witness ==
    /\ pc = "draw"
    /\ key = "GS" /\ handler = "command"
    /\ focus = "browser" /\ ~visible
    /\ lines # <<>> /\ history # <<>>
    /\ history_index = None /\ history_stash = <<>>

\* C34: every line the controller appends is followed by a recomputation of the
\* matches, so when execute_input has run a command, evicting old lines or not,
\* search_matches is what the current lines and search_query give.
C34_MatchesFreshAfterRun ==
    [][ExecutesCommand => search_matches' = LinesHolding(lines', search_query')]_vars

\* a command run at capacity with a query held: the oldest line was evicted and the
\* matches are those of the lines kept
C34_Witness ==
    /\ pc = "draw"
    /\ key \in EnterKeys /\ handler = "command"
    /\ calls = <<"run">>
    /\ Len(lines) = max_lines
    /\ lines[1][1] # "$"
    /\ search_query # <<>>
    /\ search_matches # <<>>

\* C35: in every state reached through key events, focus is command exactly when the
\* command panel is visible, and search_mode implies focus command.
C35_FocusFollowsPanel ==
    /\ (focus = "command") <=> visible
    /\ search_mode => focus = "command"

\* a query being typed in the open panel, after the panel was closed and reopened
C35_Witness ==
    /\ search_mode
    /\ focus = "command" /\ visible
    /\ key \in TypedKeys /\ handler = "search"
    /\ history # <<>> /\ lines = <<>>

\* C36: at every draw step, also after a terminal resize and after the command panel
\* was opened or closed, the selected entry is inside the drawn page:
\* top_index <= selected < top_index + page_size for the geometry of that draw.
C36_SelectedDrawn ==
    (pc = "draw" /\ entries # <<>>) =>
        (top_index <= selected /\ selected < top_index + PageSize)

\* a printable key (codes 32..126) arrives in command-normal mode
PrintableInCommand ==
    /\ pc = "getch" /\ pc' # "getch"
    /\ focus = "command" /\ ~search_mode
    /\ key' \in PrintableKeys

\* C37: in command-normal mode every printable key inserts its character into input
\* at the cursor and advances the cursor by one.
C37_PrintableInserts ==
    [][PrintableInCommand =>
          /\ input' = Slice(input, 0, cursor) \o <<key'>> \o Slice(input, cursor, Len(input))
          /\ cursor' = cursor + 1]_vars

\* C38: from any command-normal state, one where history browsing has started, come
\* back to the newest position and been followed by edits included, k presses of Up
\* followed by k presses of Down restore the input the first Up found.
C38_RoundTripFromAnyState ==
    (focus = "command" /\ trip_ups > 0 /\ trip_downs = trip_ups) => input = trip_input

\* C39: in every reachable state search_pos is -1 or an index into search_matches,
\* and every element of search_matches is an index into lines, after scrollback
\* eviction and panel reset as well.
C39_SearchIndicesValid ==
    /\ search_pos = -1 \/ (0 <= search_pos /\ search_pos < Len(search_matches))
    /\ \A j \in 1..Len(search_matches) :
          0 <= search_matches[j] /\ search_matches[j] < Len(lines)

\* N walked back to the last match of a scrollback that has evicted its oldest line
C39_Witness ==
    /\ key = "N" /\ handler = "command"
    /\ Len(lines) = max_lines
    /\ lines[1][1] # "$"
    /\ Len(search_matches) >= 2
    /\ search_pos = Len(search_matches) - 1

\* C40: history is append-only: over every key event the history before is a prefix
\* of the history after, whether the key browses the history, closes or opens the
\* panel or runs a command that fails or times out; and history_index is always None
\* or within [0, len(history)].
C40_HistoryAppendOnly ==
    /\ [](history_index = None
           \/ (0 <= history_index[1] /\ history_index[1] <= Len(history)))
    /\ [][/\ Len(history) <= Len(history')
           /\ SubSeq(history', 1, Len(history)) = history]_vars

\* a command that timed out was recorded after an earlier one, which is still first
C40_Witness ==
    /\ pc = "draw"
    /\ key \in EnterKeys /\ handler = "command"
    /\ message = <<"Command timed out">>
    /\ history = << <<"a">>, <<"a", "a">> >>

====
